---- MODULE Spec2Model ----
(***************************************************************************)
(* Model of the request bridging pipeline of mata-mcp:                     *)
(*   - OpenRouterClient (src/src/integrations/openrouter/client.ts):       *)
(*     error classification, the retry loop of createChatCompletion and    *)
(*     the event-stream decoder of streamChatCompletion;                   *)
(*   - CircuitBreaker and RateLimiter                                      *)
(*     (src/src/integrations/openrouter/utils.ts);                         *)
(*   - ResponseTransformer (src/src/core/response-transformer.ts);         *)
(*   - ModelManager (client.ts:454-805) and ModelRouter                    *)
(*     (src/unnamed/part_002);                                             *)
(*   - the tool-call handlers of MCPVisionServer                           *)
(*     (src/src/server/mcp-server.ts);                                     *)
(*   - ImageProcessor (src/unnamed/part_001).                              *)
(* Times are in milliseconds.  JavaScript's NaN and undefined are the two  *)
(* negative numbers NaN and Undefined; every real number of the model is   *)
(* non-negative.                                                           *)
(***************************************************************************)
EXTENDS Integers, Sequences, FiniteSets, TLC

VARIABLES
  \* ---- OpenRouterClient ----
  cfgMaxRetries,    \* this.config.maxRetries
  cfgRetryDelay,    \* this.config.retryDelay
  pc,               \* position of the one createChatCompletion call
  attempt,          \* loop variable of createChatCompletion
  lastError,        \* lastError of createChatCompletion (classified)
  lastOutcome,      \* what the upstream did to the latest POST
  posts,            \* POST requests issued for the current call
  delaysWaited,     \* backoff delays that elapsed in the current call
  lastDelay,        \* the value passed to the latest this.delay(...)
  callsDone,        \* createChatCompletion calls that have finished
  consecFailedCalls,\* finished calls that failed since the last success
  \* ---- CircuitBreaker ----
  failureThreshold, \* constructor parameter
  recoveryTimeout,  \* constructor parameter
  failures,         \* this.failures
  lastFailureTime,  \* this.lastFailureTime
  state,            \* this.state
  now,              \* Date.now()
  call,             \* per execute call: "idle" or "running" (awaiting operation())
  admittedAs,       \* per execute call: how the breaker admitted it
  consec,           \* wrapped operations failed since the last one that succeeded
  lastEvent,        \* the latest step of an execute call
  \* ---- one record per further component ----
  stream,           \* one streamChatCompletion generator and its consumer
  xform,            \* one transformStreamingResponse generator
  router,           \* ModelManager / ModelRouter: configuration and one selection
  tool,             \* one tool call of MCPVisionServer
  image,            \* one processImage call of ImageProcessor
  transform,        \* one single-shot call of ResponseTransformer
  limiter,          \* one RateLimiter and the isAllowed calls made on it
  catalog           \* one listModels / getModelInfo call of OpenRouterClient

clientVars == <<cfgMaxRetries, cfgRetryDelay, pc, attempt, lastError, lastOutcome,
                posts, delaysWaited, lastDelay, callsDone, consecFailedCalls>>
breakerVars == <<failureThreshold, recoveryTimeout, failures, lastFailureTime,
                 state, now, call, admittedAs, consec, lastEvent>>
pipelineVars == <<stream, xform, router, tool, image, transform, limiter, catalog>>
vars == <<clientVars, breakerVars, pipelineVars>>

\* ------------------------------------------------------------------------
\* Bounds
\* ------------------------------------------------------------------------
MaxRetriesCfg == 3     \* configured maxRetries range over 0..MaxRetriesCfg
MaxCalls == 3          \* createChatCompletion calls made one after the other
MaxThreshold == 2      \* failureThreshold ranges over 1..MaxThreshold
MaxTimeout == 2        \* recoveryTimeout ranges over 0..MaxTimeout
MaxTime == 4           \* the clock runs from 1 to MaxTime
MaxFailures == 4       \* cap of the failure counter
NumCalls == 3          \* execute calls that may overlap

\* ------------------------------------------------------------------------
\* JavaScript values
\* ------------------------------------------------------------------------
NaN == -1
Undefined == -2

\* x || y on numbers: 0, NaN and undefined are falsy
Truthy(x) == x # 0 /\ x # NaN /\ x # Undefined
Or(x, y) == IF Truthy(x) THEN x ELSE y

\* x * y on numbers: NaN is absorbing
Mul(x, y) == IF x = NaN \/ y = NaN THEN NaN ELSE x * y

RECURSIVE Pow2(_)
Pow2(n) == IF n <= 0 THEN 1 ELSE 2 * Pow2(n - 1)

\* ------------------------------------------------------------------------
\* Upstream outcomes of one POST
\* ------------------------------------------------------------------------
\* HTTP statuses that axios rejects (validateStatus: 2xx resolves)
ErrorStatuses == {400, 401, 403, 404, 429, 500, 502, 503, 504, 302, 402, 418, 501, 599}

\* values of the Retry-After response header; "" is an absent header
RetryAfterHeaders == {"", "0", "1", "2", "soon"}

Outcomes ==
  {[kind |-> "ok", status |-> 200, hdr |-> ""]}
  \cup {[kind |-> "network", status |-> 0, hdr |-> ""]}
  \cup [kind : {"http"}, status : ErrorStatuses, hdr : RetryAfterHeaders]

NoOutcome == [kind |-> "none", status |-> 0, hdr |-> ""]

\* parseInt on the header strings of the model
parseInt(s) ==
  CASE s = "0" -> 0
    [] s = "1" -> 1
    [] s = "2" -> 2
    [] s = "60" -> 60
    [] OTHER -> NaN

NoError == [code |-> "NONE", retryable |-> FALSE, retryAfter |-> Undefined]

\* retryable flag of the default branch of handleError (client.ts:208)
unknownRetryable_bug(status) == status >= 400
unknownRetryable(status) == status >= 500

\* OpenRouterClient.handleError: classification of a rejected request
handleError(error, retryDelay) ==
  IF error.kind = "network"
  THEN [code |-> "NETWORK_ERROR", retryable |-> TRUE, retryAfter |-> retryDelay]
  ELSE CASE error.status = 400 ->
              [code |-> "BAD_REQUEST", retryable |-> FALSE, retryAfter |-> Undefined]
         [] error.status = 401 ->
              [code |-> "AUTHENTICATION_ERROR", retryable |-> FALSE, retryAfter |-> Undefined]
         [] error.status = 403 ->
              [code |-> "AUTHORIZATION_ERROR", retryable |-> FALSE, retryAfter |-> Undefined]
         [] error.status = 404 ->
              [code |-> "MODEL_NOT_FOUND", retryable |-> FALSE, retryAfter |-> Undefined]
         [] error.status = 429 ->
              [code |-> "RATE_LIMITED", retryable |-> TRUE,
               retryAfter |-> Mul(parseInt(IF error.hdr = "" THEN "60" ELSE error.hdr), 1000)]
         [] error.status \in {500, 502, 503, 504} ->
              [code |-> "SERVER_ERROR", retryable |-> TRUE, retryAfter |-> retryDelay]
         [] OTHER ->
              [code |-> "UNKNOWN_ERROR", retryable |-> unknownRetryable(error.status),
               retryAfter |-> Undefined]

\* the attempt bound of createChatCompletion (client.ts:217)
maxRetries == Or(cfgMaxRetries, 3)

\* the loop condition of createChatCompletion (client.ts:220)
loopGuard(att) == att <= maxRetries

\* the give-up condition of the catch block (client.ts:228)
giveUp_bug(err, att) == att = maxRetries
giveUp_and(err, att) == ~err.retryable /\ att = maxRetries
giveUp(err, att) == ~err.retryable \/ att = maxRetries

\* the backoff delay of createChatCompletion (client.ts:233)
backoffDelay_bug(err, att) == Mul(Or(err.retryAfter, Or(cfgRetryDelay, 1000)), Pow2(att))
backoffDelay(err, att) == Mul(Or(err.retryAfter, Or(cfgRetryDelay, 1000)), Pow2(att - 1))

\* base retry delays a configuration may set (Joi: positive, default 1000)
RetryDelays == {500, 1000}

\* the execute calls that may overlap
CallIds == 1..NumCalls

NoEvent == [type |-> "none", id |-> 0, as |-> "none"]

\* ------------------------------------------------------------------------
\* The further components before their first call
\* ------------------------------------------------------------------------
\* streamChatCompletion has not been called
StreamIdle ==
  [pc |-> "idle", attempt |-> 0, lastError |-> NoError, posts |-> 0,
   delaysWaited |-> 0, lastDelay |-> 0, received |-> <<>>, yielded |-> <<>>]

\* transformStreamingResponse has not been called
XformIdle ==
  [pc |-> "idle",
   opts |-> [chunkSize |-> Undefined, preserveFormatting |-> FALSE,
             maxResponseLength |-> 4000, addAnalysisPrefix |-> TRUE],
   accumulatedText |-> <<>>, chunkBuffer |-> <<>>, hasImageAnalysis |-> FALSE,
   deltas |-> <<>>, ended |-> "", out |-> <<>>]

\* no ModelManager / ModelRouter is constructed
RouterIdle ==
  [pc |-> "idle", primary |-> "", fallback |-> <<>>, capabilities |-> <<>>,
   updates |-> 0, request |-> <<>>, first |-> <<>>, validation |-> TRUE,
   selection |-> <<>>, totalRequests |-> 0, successfulSelections |-> 0,
   fallbackSelections |-> 0]

\* no tool call has been received
ToolIdle ==
  [pc |-> "idle", name |-> "", args |-> <<>>, stages |-> <<>>, image |-> FALSE,
   model |-> "", completion |-> FALSE, upstreamCalls |-> 0, failed |-> "",
   response |-> "", content |-> <<>>]

\* processImage has not been called
ImageIdle ==
  [pc |-> "idle", maxSize |-> 0, allowedFormats |-> {}, ref |-> <<>>,
   size |-> 0, format |-> "", fetches |-> 0, optimized |-> 0,
   thrown |-> "", error |-> "", result |-> <<>>]

\* no single-shot transformation has been asked for
TransformIdle ==
  [pc |-> "idle", input |-> <<>>, output |-> <<>>]

\* no RateLimiter is constructed
LimiterIdle ==
  [pc |-> "idle", maxRequests |-> 0, windowMs |-> 0, now |-> 0, requests |-> <<>>,
   log |-> <<>>]

\* neither listModels nor getModelInfo has been called
CatalogIdle ==
  [pc |-> "idle", method |-> "", outcome |-> <<>>, rejection |-> <<>>, thrown |-> <<>>]

\* a client constructed from a configuration the schema accepts; no
\* CircuitBreaker is constructed by the client or the server
InitClient ==
  /\ stream = StreamIdle
  /\ xform = XformIdle
  /\ router = RouterIdle
  /\ tool = ToolIdle
  /\ image = ImageIdle
  /\ transform = TransformIdle
  /\ limiter = LimiterIdle
  /\ catalog = CatalogIdle
  /\ failureThreshold = 1
  /\ recoveryTimeout = 0
  /\ failures = 0
  /\ lastFailureTime = 0
  /\ state = "closed"
  /\ now = 1
  /\ call = [c \in CallIds |-> "idle"]
  /\ admittedAs = [c \in CallIds |-> "none"]
  /\ consec = 0
  /\ lastEvent = NoEvent
  /\ cfgMaxRetries \in 0..MaxRetriesCfg
  /\ cfgRetryDelay \in RetryDelays
  /\ pc = "idle"
  /\ attempt = 0
  /\ lastError = NoError
  /\ lastOutcome = NoOutcome
  /\ posts = 0
  /\ delaysWaited = 0
  /\ lastDelay = 0
  /\ callsDone = 0
  /\ consecFailedCalls = 0

\* a caller invokes createChatCompletion (client.ts:216-220): the loop starts
createChatCompletion ==
  /\ pc \in {"idle", "returned", "thrown"}
  /\ callsDone < MaxCalls
  /\ pc' = "loop"
  /\ attempt' = 1
  /\ lastError' = NoError
  /\ lastOutcome' = NoOutcome
  /\ posts' = 0
  /\ delaysWaited' = 0
  /\ lastDelay' = 0
  /\ UNCHANGED <<cfgMaxRetries, cfgRetryDelay, callsDone, consecFailedCalls>>

\* loop test and this.client.post (client.ts:220-222); the loop's exit is
\* the throw of client.ts:246
post ==
  /\ pc = "loop"
  /\ IF loopGuard(attempt)
     THEN /\ pc' = "awaiting"
          /\ posts' = posts + 1
          /\ UNCHANGED <<callsDone, consecFailedCalls>>
     ELSE /\ pc' = "thrown"
          /\ posts' = posts
          /\ callsDone' = callsDone + 1
          /\ consecFailedCalls' = consecFailedCalls + 1
  /\ UNCHANGED <<cfgMaxRetries, cfgRetryDelay, attempt, lastError, lastOutcome,
                 delaysWaited, lastDelay>>

\* the POST resolves: return response.data (client.ts:222-223)
postResolved ==
  /\ pc = "awaiting"
  /\ lastOutcome' = [kind |-> "ok", status |-> 200, hdr |-> ""]
  /\ pc' = "returned"
  /\ callsDone' = callsDone + 1
  /\ consecFailedCalls' = 0
  /\ UNCHANGED <<cfgMaxRetries, cfgRetryDelay, attempt, lastError, posts,
                 delaysWaited, lastDelay>>

\* the backoff of client.ts:232-242 is started
startDelay_bug(err) ==
  /\ pc' = "loop"
  /\ attempt' = attempt + 1
  /\ UNCHANGED <<lastDelay, callsDone, consecFailedCalls>>
startDelay(err) ==
  /\ pc' = "delaying"
  /\ lastDelay' = backoffDelay(err, attempt)
  /\ UNCHANGED <<attempt, callsDone, consecFailedCalls>>

\* the POST rejects: the response interceptor classifies the failure
\* (client.ts:97-107) and the catch block decides (client.ts:224-243)
postRejected ==
  /\ pc = "awaiting"
  /\ \E o \in Outcomes :
       /\ o.kind # "ok"
       /\ lastOutcome' = o
       /\ LET err == handleError(o, cfgRetryDelay) IN
            /\ lastError' = err
            /\ IF giveUp(err, attempt)
               THEN /\ pc' = "thrown"
                    /\ callsDone' = callsDone + 1
                    /\ consecFailedCalls' = consecFailedCalls + 1
                    /\ UNCHANGED <<attempt, lastDelay>>
               ELSE startDelay(err)
  /\ UNCHANGED <<cfgMaxRetries, cfgRetryDelay, posts, delaysWaited>>

\* this.delay(delay) resolves and the loop increments attempt (client.ts:242, 220)
delayElapsed ==
  /\ pc = "delaying"
  /\ delaysWaited' = delaysWaited + 1
  /\ attempt' = attempt + 1
  /\ pc' = "loop"
  /\ UNCHANGED <<cfgMaxRetries, cfgRetryDelay, lastError, lastOutcome, posts,
                 lastDelay, callsDone, consecFailedCalls>>

NextClient ==
  \/ (createChatCompletion /\ UNCHANGED <<breakerVars, pipelineVars>>)
  \/ (post /\ UNCHANGED <<breakerVars, pipelineVars>>)
  \/ (postResolved /\ UNCHANGED <<breakerVars, pipelineVars>>)
  \/ (postRejected /\ UNCHANGED <<breakerVars, pipelineVars>>)
  \/ (delayElapsed /\ UNCHANGED <<breakerVars, pipelineVars>>)

\* ------------------------------------------------------------------------
\* CircuitBreaker (utils.ts:339-389)
\* ------------------------------------------------------------------------
\* a breaker constructed with its two parameters; the client is left with
\* the constructor defaults (client.ts:24-26) and makes no call
InitBreaker ==
  /\ stream = StreamIdle
  /\ xform = XformIdle
  /\ router = RouterIdle
  /\ tool = ToolIdle
  /\ image = ImageIdle
  /\ transform = TransformIdle
  /\ limiter = LimiterIdle
  /\ catalog = CatalogIdle
  /\ cfgMaxRetries = 3
  /\ cfgRetryDelay = 1000
  /\ pc = "idle"
  /\ attempt = 0
  /\ lastError = NoError
  /\ lastOutcome = NoOutcome
  /\ posts = 0
  /\ delaysWaited = 0
  /\ lastDelay = 0
  /\ callsDone = 0
  /\ consecFailedCalls = 0
  /\ failureThreshold \in 1..MaxThreshold
  /\ recoveryTimeout \in 0..MaxTimeout
  /\ failures = 0
  /\ lastFailureTime = 0
  /\ state = "closed"
  /\ now = 1
  /\ call = [c \in CallIds |-> "idle"]
  /\ admittedAs = [c \in CallIds |-> "none"]
  /\ consec = 0
  /\ lastEvent = NoEvent

\* the cooldown test of execute (utils.ts:351)
cooldownElapsed == now - lastFailureTime > recoveryTimeout

\* the state after the counting of onFailure (utils.ts:377-379)
tripped_bug(f) == f > failureThreshold
tripped(f) == f >= failureThreshold

\* execute up to its await (utils.ts:350-359): the gate, then operation() is started
execute(c) ==
  /\ call[c] = "idle"
  /\ IF state = "open" /\ ~cooldownElapsed
     THEN \* throw new Error('Circuit breaker is open')
          /\ lastEvent' = [type |-> "rejected", id |-> c, as |-> "none"]
          /\ UNCHANGED <<state, call, admittedAs>>
     ELSE /\ state' = IF state = "open" THEN "half-open" ELSE state
          /\ call' = [call EXCEPT ![c] = "running"]
          /\ admittedAs' = [admittedAs EXCEPT ![c] =
                             CASE state = "open" -> "trial"
                               [] state = "half-open" -> "half-open"
                               [] OTHER -> "closed"]
          /\ lastEvent' = [type |-> "admitted", id |-> c, as |-> admittedAs'[c]]
  /\ UNCHANGED <<failureThreshold, recoveryTimeout, failures, lastFailureTime, now, consec>>

\* operation() resolved: onSuccess (utils.ts:360-361, 368-371)
onSuccess_stateKept(c) ==
  /\ call[c] = "running"
  /\ failures' = 0
  /\ state' = state
  /\ call' = [call EXCEPT ![c] = "idle"]
  /\ consec' = 0
  /\ lastEvent' = [type |-> "success", id |-> c, as |-> admittedAs[c]]
  /\ UNCHANGED <<failureThreshold, recoveryTimeout, lastFailureTime, now, admittedAs>>
onSuccess(c) ==
  /\ call[c] = "running"
  /\ failures' = 0
  /\ state' = "closed"
  /\ call' = [call EXCEPT ![c] = "idle"]
  /\ consec' = 0
  /\ lastEvent' = [type |-> "success", id |-> c, as |-> admittedAs[c]]
  /\ UNCHANGED <<failureThreshold, recoveryTimeout, lastFailureTime, now, admittedAs>>

\* operation() rejected: onFailure (utils.ts:362-364, 373-380)
onFailure_lost(c) ==
  /\ call[c] = "running"
  /\ failures < MaxFailures
  /\ failures' = IF \E d \in CallIds : d # c /\ call[d] = "running"
                 THEN failures ELSE failures + 1
  /\ lastFailureTime' = now
  /\ state' = IF tripped(failures') THEN "open" ELSE state
  /\ call' = [call EXCEPT ![c] = "idle"]
  /\ consec' = consec + 1
  /\ lastEvent' = [type |-> "failure", id |-> c, as |-> admittedAs[c]]
  /\ UNCHANGED <<failureThreshold, recoveryTimeout, now, admittedAs>>
onFailure(c) ==
  /\ call[c] = "running"
  /\ failures < MaxFailures
  /\ failures' = failures + 1
  /\ lastFailureTime' = now
  /\ state' = IF tripped(failures') THEN "open" ELSE state
  /\ call' = [call EXCEPT ![c] = "idle"]
  /\ consec' = consec + 1
  /\ lastEvent' = [type |-> "failure", id |-> c, as |-> admittedAs[c]]
  /\ UNCHANGED <<failureThreshold, recoveryTimeout, now, admittedAs>>

\* the clock advances
tick ==
  /\ now < MaxTime
  /\ now' = now + 1
  /\ lastEvent' = [type |-> "tick", id |-> 0, as |-> "none"]
  /\ UNCHANGED <<failureThreshold, recoveryTimeout, failures, lastFailureTime,
                 state, call, admittedAs, consec>>

NextBreaker ==
  \/ (\E c \in CallIds : execute(c) /\ UNCHANGED <<clientVars, pipelineVars>>)
  \/ (\E c \in CallIds : onSuccess(c) /\ UNCHANGED <<clientVars, pipelineVars>>)
  \/ (\E c \in CallIds : onFailure(c) /\ UNCHANGED <<clientVars, pipelineVars>>)
  \/ (tick /\ UNCHANGED <<clientVars, pipelineVars>>)

\* ------------------------------------------------------------------------
\* Specifications
\* ------------------------------------------------------------------------
\* one OpenRouterClient serving createChatCompletion calls
SpecClient == InitClient /\ [][NextClient]_vars

\* one CircuitBreaker serving overlapping execute calls
SpecBreaker == InitBreaker /\ [][NextBreaker]_vars

\* ------------------------------------------------------------------------
\* Retry loop of createChatCompletion
\* ------------------------------------------------------------------------
NonRetryableStatuses == {400, 401, 403, 404}

\* C1: one createChatCompletion call issues at most maxRetries POSTs, and a
\* POST after the first is issued only when the attempt before it failed
\* with an error classified retryable.
C1_BoundedRetries ==
  [][ /\ posts' <= maxRetries'
      /\ (posts' = posts + 1 /\ posts >= 1) =>
            (lastOutcome.kind \in {"network", "http"} /\ lastError.retryable) ]_vars

C1_Witness ==
  pc = "thrown" /\ posts = 3 /\ maxRetries = 3 /\ lastError.retryable

\* C2: an attempt answered 400, 401, 403 or 404 is the last one of its call:
\* the call has failed, the attempt is the latest POST, and every delay
\* waited so far preceded it.
C2_NonRetryableFailsAtOnce ==
  (lastOutcome.kind = "http" /\ lastOutcome.status \in NonRetryableStatuses) =>
    /\ pc = "thrown"
    /\ ~lastError.retryable
    /\ posts = attempt
    /\ delaysWaited = posts - 1

C2_Witness ==
  /\ pc = "thrown"
  /\ lastOutcome.status = 404
  /\ posts = 2
  /\ delaysWaited = 1

\* C3: a success of attempt k is returned at once, after exactly k POSTs and
\* k-1 elapsed delays; every POST but the first is issued right after the
\* delay of the failed attempt before it, and every delay follows a failed POST.
C3_SuccessAfterRetries ==
  [][ /\ (lastOutcome'.kind = "ok") =>
            (pc' = "returned" /\ posts' = attempt' /\ delaysWaited' = posts' - 1
               /\ posts' <= maxRetries')
      /\ (pc = "awaiting" /\ pc' = "returned") => lastOutcome'.kind = "ok"
      /\ (posts' = posts + 1) => (delaysWaited = posts /\ posts' = attempt')
      /\ (delaysWaited' = delaysWaited + 1) =>
            (pc = "delaying" /\ delaysWaited = posts - 1 /\ lastError.retryable) ]_vars

C3_Witness ==
  /\ pc = "returned"
  /\ lastOutcome.kind = "ok"
  /\ posts = 3
  /\ delaysWaited = 2
  /\ lastError.code = "SERVER_ERROR"

\* The base delay the claim C4 names: the upstream's Retry-After value when
\* it sent one, the configured retryDelay otherwise.
C4_ClaimedBase(o) ==
  IF o.kind = "http" /\ parseInt(o.hdr) # NaN
  THEN parseInt(o.hdr) * 1000
  ELSE cfgRetryDelay

\* C4 as claimed: the delay after failed attempt a is ClaimedBase * 2^(a-1).
C4_Original ==
  (pc = "delaying") => lastDelay = C4_ClaimedBase(lastOutcome) * Pow2(posts - 1)

\* The base delay the code uses: for a 429 the Retry-After seconds times 1000
\* when they are a non-zero number and 60000 when the header is absent; in
\* every other case (no response, other statuses, Retry-After 0 or not a
\* number) the configured retryDelay.
C4_Base(o) ==
  IF o.kind = "http" /\ o.status = 429
  THEN CASE o.hdr = "" -> 60000
         [] o.hdr = "1" -> 1000
         [] o.hdr = "2" -> 2000
         [] OTHER -> cfgRetryDelay
  ELSE cfgRetryDelay

\* C4 (amended): the delay waited after failed attempt a is Base * 2^(a-1),
\* and the delay that elapses is always the one computed for the latest
\* failed attempt.
C4_BackoffDelay ==
  [][ /\ (pc' = "delaying") => lastDelay' = C4_Base(lastOutcome') * Pow2(posts' - 1)
      /\ (delaysWaited' = delaysWaited + 1) =>
            (pc = "delaying" /\ lastDelay' = lastDelay) ]_vars

C4_Witness ==
  /\ pc = "delaying"
  /\ posts = 2
  /\ lastOutcome.status = 429
  /\ lastOutcome.hdr = ""
  /\ lastDelay = 120000

\* The classification the claim C5 gives for an upstream failure.
C5_Code(o) ==
  CASE o.kind = "network" -> "NETWORK_ERROR"
    [] o.kind = "http" /\ o.status = 400 -> "BAD_REQUEST"
    [] o.kind = "http" /\ o.status = 401 -> "AUTHENTICATION_ERROR"
    [] o.kind = "http" /\ o.status = 403 -> "AUTHORIZATION_ERROR"
    [] o.kind = "http" /\ o.status = 404 -> "MODEL_NOT_FOUND"
    [] o.kind = "http" /\ o.status = 429 -> "RATE_LIMITED"
    [] o.kind = "http" /\ o.status \in {500, 502, 503, 504} -> "SERVER_ERROR"
    [] OTHER -> "UNKNOWN_ERROR"

C5_Retryable(o) ==
  CASE o.kind = "network" -> TRUE
    [] o.kind = "http" /\ o.status \in NonRetryableStatuses -> FALSE
    [] o.kind = "http" /\ o.status \in {429, 500, 502, 503, 504} -> TRUE
    [] OTHER -> o.status >= 500

\* C5: every failed attempt is classified, with the kind and the retryable
\* flag of the table: network, the four non-retryable kinds, rate-limited,
\* server-error, and unknown with retryable = (status >= 500).
C5_ClassificationTotal ==
  (lastOutcome.kind \in {"network", "http"}) =>
    /\ lastError.code = C5_Code(lastOutcome)
    /\ lastError.retryable = C5_Retryable(lastOutcome)

C5_Witness ==
  /\ lastOutcome.kind = "http"
  /\ lastOutcome.status = 418
  /\ lastError.code = "UNKNOWN_ERROR"
  /\ ~lastError.retryable
  /\ pc = "thrown"

\* C10: after failureThreshold consecutive failed calls, whatever the
\* threshold, no POST of a further call is in flight.
C10_Original ==
  \A th \in 1..MaxThreshold :
    (consecFailedCalls >= th) => pc # "awaiting"

\* ------------------------------------------------------------------------
\* CircuitBreaker
\* ------------------------------------------------------------------------
Running == {c \in CallIds : call[c] = "running"}

\* C6: the failure that makes failureThreshold consecutive failed operations
\* leaves the breaker open, and an execute call made while the breaker is
\* open and the cooldown has not elapsed is rejected: no operation is
\* started and the breaker stays open.
C6_OpensAndRejects ==
  [][ /\ (lastEvent'.type = "failure" /\ consec' >= failureThreshold) => state' = "open"
      /\ (state = "open" /\ ~cooldownElapsed /\ lastEvent'.type \in {"admitted", "rejected"}) =>
            (lastEvent'.type = "rejected" /\ call' = call /\ state' = "open") ]_vars

C6_Witness ==
  /\ lastEvent.type = "rejected"
  /\ state = "open"
  /\ failureThreshold = 2
  /\ consec = 2
  /\ now - lastFailureTime <= recoveryTimeout

\* C7 as claimed: on an open breaker whose cooldown has elapsed the next
\* execute call is admitted as the half-open trial; when that trial succeeds
\* the breaker is closed with failure count 0; when it fails the breaker is
\* open and lastFailureTime is the time of that failure.
C7_Original ==
  [][ /\ (state = "open" /\ cooldownElapsed /\ lastEvent'.type \in {"admitted", "rejected"}) =>
            (lastEvent'.type = "admitted" /\ lastEvent'.as = "trial" /\ state' = "half-open")
      /\ (lastEvent'.type = "success" /\ lastEvent'.as = "trial") =>
            (state' = "closed" /\ failures' = 0)
      /\ (lastEvent'.type = "failure" /\ lastEvent'.as = "trial") =>
            (state' = "open" /\ lastFailureTime' = now) ]_vars

\* C8 as claimed: while the breaker is half-open at most one operation
\* admitted since the cooldown elapsed is in flight.
C8_Original ==
  (state = "half-open") =>
    Cardinality({c \in Running : admittedAs[c] \in {"trial", "half-open"}}) <= 1

\* C9 as claimed: an open breaker whose cooldown has not elapsed rejects
\* every new call, and the breaker leaves the open state only when the
\* cooldown has elapsed.
C9_Original ==
  [][ /\ (state = "open" /\ ~cooldownElapsed /\ lastEvent'.type \in {"admitted", "rejected"}) =>
            lastEvent'.type = "rejected"
      /\ (state = "open" /\ state' # "open") => cooldownElapsed ]_vars

\* ------------------------------------------------------------------------
\* OpenRouterClient.streamChatCompletion (client.ts:252-324)
\* ------------------------------------------------------------------------
MaxLines == 3          \* lines received on one event stream

\* the content fields of the well-formed events
Contents == {"a", "b"}

\* The lines chunk.toString().split('\n') delivers.  kind: "delta" is a data
\* line whose JSON carries a non-empty delta content, "nocontent" a data
\* line whose JSON carries none, "bad" a data line whose payload is not
\* JSON, "done" the line data: [DONE], "other" a line without the data:
\* prefix.  split: the line was cut by a transport chunk boundary and
\* arrives as two pieces.
Lines ==
  [kind : {"delta"}, data : Contents, split : BOOLEAN]
  \cup [kind : {"nocontent", "bad", "done"}, data : {""}, split : BOOLEAN]
  \cup [kind : {"other"}, data : {""}, split : {FALSE}]

\* an error thrown by the stream while it is read: no code, no retryable
\* flag (undefined, which ! treats as false), no retryAfter
RawError == [code |-> "UNCLASSIFIED", retryable |-> FALSE, retryAfter |-> Undefined]

\* What the decoder does with one line (client.ts:272-291): "done" for the
\* sentinel, "delta" for a content, "skip" otherwise.  The two pieces of a
\* split line are skipped: the first has a payload JSON.parse rejects, the
\* second does not start with data: .
onLine_noSentinel(l) ==
  CASE l.split -> "skip"
    [] l.kind = "delta" -> "delta"
    [] OTHER -> "skip"
onLine_fatal(l) ==
  CASE l.kind = "bad" -> "throw"
    [] l.split -> "skip"
    [] l.kind = "done" -> "done"
    [] l.kind = "delta" -> "delta"
    [] OTHER -> "skip"
onLine(l) ==
  CASE l.split -> "skip"
    [] l.kind = "done" -> "done"
    [] l.kind = "delta" -> "delta"
    [] OTHER -> "skip"

DeltaChunk(c) == [type |-> "delta", data |-> c]
DoneChunk == [type |-> "done", data |-> ""]
ErrorChunk == [type |-> "error", data |-> ""]

\* a client constructed from a configuration the schema accepts
InitStream ==
  /\ stream = StreamIdle
  /\ xform = XformIdle
  /\ router = RouterIdle
  /\ tool = ToolIdle
  /\ image = ImageIdle
  /\ transform = TransformIdle
  /\ limiter = LimiterIdle
  /\ catalog = CatalogIdle
  /\ failureThreshold = 1
  /\ recoveryTimeout = 0
  /\ failures = 0
  /\ lastFailureTime = 0
  /\ state = "closed"
  /\ now = 1
  /\ call = [c \in CallIds |-> "idle"]
  /\ admittedAs = [c \in CallIds |-> "none"]
  /\ consec = 0
  /\ lastEvent = NoEvent
  /\ cfgMaxRetries \in 0..MaxRetriesCfg
  /\ cfgRetryDelay \in RetryDelays
  /\ pc = "idle"
  /\ attempt = 0
  /\ lastError = NoError
  /\ lastOutcome = NoOutcome
  /\ posts = 0
  /\ delaysWaited = 0
  /\ lastDelay = 0
  /\ callsDone = 0
  /\ consecFailedCalls = 0

\* the consumer asks for the first chunk (client.ts:252-256)
streamChatCompletion ==
  /\ stream.pc = "idle"
  /\ stream' = [stream EXCEPT !.pc = "loop", !.attempt = 1]

\* loop test and this.client.post (client.ts:256-264); the loop's exit is
\* the error chunk and the throw of client.ts:322-323
streamPost ==
  /\ stream.pc = "loop"
  /\ stream' = IF loopGuard(stream.attempt)
               THEN [stream EXCEPT !.pc = "awaiting", !.posts = @ + 1]
               ELSE [stream EXCEPT !.pc = "thrown", !.yielded = Append(@, ErrorChunk)]

\* the catch block of streamChatCompletion (client.ts:299-319)
streamCatch(err) ==
  IF giveUp(err, stream.attempt)
  THEN [stream EXCEPT !.lastError = err, !.pc = "thrown",
                      !.yielded = Append(@, ErrorChunk)]
  ELSE [stream EXCEPT !.lastError = err, !.pc = "delaying",
                      !.lastDelay = backoffDelay(err, stream.attempt)]

\* the POST rejects with the error the interceptor classified
streamPostRejected ==
  /\ stream.pc = "awaiting"
  /\ \E o \in Outcomes :
       /\ o.kind # "ok"
       /\ stream' = streamCatch(handleError(o, cfgRetryDelay))

\* this.delay(delay) resolves and the loop increments attempt (client.ts:318, 256)
streamDelayElapsed ==
  /\ stream.pc = "delaying"
  /\ stream' = [stream EXCEPT !.pc = "loop", !.attempt = @ + 1, !.delaysWaited = @ + 1]

\* the POST resolves with the response stream (client.ts:266)
streamPostResolved ==
  /\ stream.pc = "awaiting"
  /\ stream' = [stream EXCEPT !.pc = "reading", !.received = <<>>]

\* the next line of the current transport chunk is decoded (client.ts:268-292)
streamLine ==
  /\ stream.pc = "reading"
  /\ Len(stream.received) < MaxLines
  /\ \E l \in Lines :
       LET got == [stream EXCEPT !.received = Append(@, l)] IN
       stream' = CASE onLine(l) = "done" ->
                        [got EXCEPT !.pc = "finished", !.yielded = Append(@, DoneChunk)]
                   [] onLine(l) = "delta" ->
                        [got EXCEPT !.yielded = Append(@, DeltaChunk(l.data))]
                   [] onLine(l) = "throw" ->
                        [streamCatch(RawError) EXCEPT !.received = Append(@, l)]
                   [] OTHER -> got

\* the response stream ends (client.ts:295-297)
streamEnd ==
  /\ stream.pc = "reading"
  /\ stream' = [stream EXCEPT !.pc = "finished", !.yielded = Append(@, DoneChunk)]

\* reading the response stream throws (client.ts:268, 299-306)
streamReadError ==
  /\ stream.pc = "reading"
  /\ stream' = streamCatch(RawError)

streamRest == UNCHANGED <<clientVars, breakerVars, xform, router, tool, image, transform, limiter, catalog>>

NextStream ==
  \/ (streamChatCompletion /\ streamRest)
  \/ (streamPost /\ streamRest)
  \/ (streamPostRejected /\ streamRest)
  \/ (streamDelayElapsed /\ streamRest)
  \/ (streamPostResolved /\ streamRest)
  \/ (streamLine /\ streamRest)
  \/ (streamEnd /\ streamRest)
  \/ (streamReadError /\ streamRest)

\* one OpenRouterClient serving one streamChatCompletion call
SpecStream == InitStream /\ [][NextStream]_vars

StreamOver == stream.pc \in {"finished", "thrown"}

Terminal(ch) == ch.type \in {"done", "error"}

\* the line a step has just received, when it received one
GotLine == Len(stream'.received) = Len(stream.received) + 1
TheLine == stream'.received[Len(stream'.received)]

\* C11: the chunks yielded are deltas followed by one terminal chunk (done or
\* error): every chunk but the last is a delta, the last one is terminal
\* exactly when the generator is over, a whole [DONE] line yields done in
\* the step that decodes it, and nothing is yielded once the generator is over.
C11_DeltasThenOneTerminal ==
  [][ /\ \A i \in 1..Len(stream'.yielded) :
            (i < Len(stream'.yielded)) => stream'.yielded[i].type = "delta"
      /\ (stream'.pc \in {"finished", "thrown"}) <=>
            (stream'.yielded # <<>> /\ Terminal(stream'.yielded[Len(stream'.yielded)]))
      /\ (GotLine /\ TheLine.kind = "done" /\ ~TheLine.split) =>
            (stream'.yielded = Append(stream.yielded, DoneChunk) /\ stream'.pc = "finished")
      /\ StreamOver => stream'.yielded = stream.yielded ]_vars

C11_Witness ==
  /\ stream.pc = "finished"
  /\ Len(stream.yielded) = 3
  /\ stream.yielded[3] = DoneChunk
  /\ stream.received[Len(stream.received)].kind = "done"
  /\ stream.posts = 2

HasBad(ls) == \E i \in 1..Len(ls) : ls[i].kind = "bad" /\ ~ls[i].split

\* C12: a malformed data line yields nothing and leaves the stream being
\* read; a well-formed event decoded after it still yields its delta, and
\* the stream that ends after it ends in done.
C12_MalformedSkipped ==
  [][ /\ (GotLine /\ TheLine.kind = "bad") =>
            (stream'.yielded = stream.yielded /\ stream'.pc = "reading")
      /\ (GotLine /\ HasBad(stream.received) /\ TheLine.kind = "delta" /\ ~TheLine.split) =>
            stream'.yielded = Append(stream.yielded, DeltaChunk(TheLine.data))
      /\ (HasBad(stream.received) /\ stream.pc = "reading" /\ stream'.pc = "finished") =>
            stream'.yielded[Len(stream'.yielded)] = DoneChunk ]_vars

C12_Witness ==
  /\ stream.pc = "finished"
  /\ Len(stream.received) = 2
  /\ stream.received[1].kind = "bad"
  /\ ~stream.received[1].split
  /\ stream.received[2].kind = "delta"
  /\ stream.yielded = <<DeltaChunk(stream.received[2].data), DoneChunk>>

\* ------------------------------------------------------------------------
\* Texts: sequences of one-character strings
\* ------------------------------------------------------------------------
MaxText == 4           \* characters one stream of deltas carries in all
MaxDeltaLen == 2       \* characters of one delta

Alphabet == {"s", "e", " ", ".", "\n"}

Texts(n) == UNION {[1..k -> Alphabet] : k \in 0..n}

\* JavaScript's white space, as far as trim and \s see it
IsSpace(c) == c \in {" ", "\n", "\r", "\t"}

RECURSIVE trimStart(_)
trimStart(s) == IF s # <<>> /\ IsSpace(Head(s)) THEN trimStart(Tail(s)) ELSE s

RECURSIVE trimEnd(_)
trimEnd(s) ==
  IF s # <<>> /\ IsSpace(s[Len(s)]) THEN trimEnd(SubSeq(s, 1, Len(s) - 1)) ELSE s

\* String.prototype.trim
trim(s) == trimEnd(trimStart(s))

\* String.prototype.includes
includes(s, k) == \E i \in 1..(Len(s) - Len(k) + 1) : SubSeq(s, i, i + Len(k) - 1) = k

\* String.prototype.toLowerCase on the letters of the model
lower(c) ==
  CASE c = "S" -> "s"
    [] c = "E" -> "e"
    [] c = "I" -> "i"
    [] c = "A" -> "a"
    [] OTHER -> c
toLowerCase(s) == [i \in 1..Len(s) |-> lower(s[i])]

\* String.prototype.lastIndexOf of one character: 0-based, -1 when absent
lastIndexOf(s, c) ==
  LET hits == {i \in 1..Len(s) : s[i] = c} IN
  IF hits = {} THEN -1 ELSE (CHOOSE i \in hits : \A j \in hits : j <= i) - 1

\* String.prototype.substring(0, n)
substring0(s, n) == SubSeq(s, 1, IF n < 0 THEN 0 ELSE IF n > Len(s) THEN Len(s) ELSE n)

\* the 1-based position of the first character of s that is in cs, 0 when none
firstIn(s, cs) ==
  LET hits == {i \in 1..Len(s) : s[i] \in cs} IN
  IF hits = {} THEN 0 ELSE CHOOSE i \in hits : \A j \in hits : i <= j

\* .replace(/\r\n/g, '\n').replace(/\r/g, '\n')
RECURSIVE normalizeBreaks(_)
normalizeBreaks(s) ==
  LET k == firstIn(s, {"\r"}) IN
  IF k = 0 THEN s
  ELSE SubSeq(s, 1, k - 1) \o <<"\n">>
       \o normalizeBreaks(SubSeq(s, IF k < Len(s) /\ s[k + 1] = "\n" THEN k + 2 ELSE k + 1, Len(s)))

\* the length of the run of characters of set cs that s starts with
RECURSIVE runLength(_, _)
runLength(s, cs) == IF s # <<>> /\ Head(s) \in cs THEN 1 + runLength(Tail(s), cs) ELSE 0

\* .replace(/\n{3,}/g, '\n\n')
RECURSIVE collapseBreaks(_)
collapseBreaks(s) ==
  LET k == firstIn(s, {"\n"}) IN
  IF k = 0 THEN s
  ELSE LET n == runLength(SubSeq(s, k, Len(s)), {"\n"}) IN
       SubSeq(s, 1, k - 1)
       \o (IF n >= 3 THEN <<"\n", "\n">> ELSE SubSeq(s, k, k + n - 1))
       \o collapseBreaks(SubSeq(s, k + n, Len(s)))

\* .replace(/[ \t]{2,}/g, ' ')
RECURSIVE collapseBlanks(_)
collapseBlanks(s) ==
  LET k == firstIn(s, {" ", "\t"}) IN
  IF k = 0 THEN s
  ELSE LET n == runLength(SubSeq(s, k, Len(s)), {" ", "\t"}) IN
       SubSeq(s, 1, k - 1)
       \o (IF n >= 2 THEN <<" ">> ELSE SubSeq(s, k, k + n - 1))
       \o collapseBlanks(SubSeq(s, k + n, Len(s)))

\* ------------------------------------------------------------------------
\* ResponseTransformer (response-transformer.ts)
\* ------------------------------------------------------------------------
analysisKeywords ==
  {<<"i", "m", "a", "g", "e">>,
   <<"p", "i", "c", "t", "u", "r", "e">>,
   <<"p", "h", "o", "t", "o">>,
   <<"v", "i", "s", "u", "a", "l">>,
   <<"s", "e", "e">>,
   <<"o", "b", "s", "e", "r", "v", "e">>,
   <<"n", "o", "t", "i", "c", "e">>,
   <<"d", "e", "p", "i", "c", "t", "s">>,
   <<"s", "h", "o", "w", "s">>,
   <<"d", "i", "s", "p", "l", "a", "y", "s">>,
   <<"c", "o", "n", "t", "a", "i", "n", "s">>,
   <<"f", "e", "a", "t", "u", "r", "e", "s">>,
   <<"e", "l", "e", "m", "e", "n", "t", "s">>}

\* ResponseTransformer.appearsToBeImageAnalysis
appearsToBeImageAnalysis(content) ==
  \E k \in analysisKeywords : includes(toLowerCase(content), k)

AnalysisPrefix == <<"I", "m", "a", "g", "e", " ", "A", "n", "a", "l", "y", "s", "i", "s", ":", "\n", "\n">>

TruncationMarker == <<"\n", "\n", "[", "R", "e", "s", "p", "o", "n", "s", "e", " ", "t", "r", "u", "n", "c", "a", "t", "e", "d", "]">>

\* a truncation that drops the tail without the marker
truncateResponse_silent(text, maxLength) ==
  IF Len(text) <= maxLength THEN text ELSE substring0(text, maxLength - 50)

\* ResponseTransformer.truncateResponse
truncateResponse(text, maxLength) ==
  IF Len(text) <= maxLength THEN text
  ELSE LET truncated == substring0(text, maxLength - 50)
           lastSentence == lastIndexOf(truncated, ".")
           lastLineBreak == lastIndexOf(truncated, "\n")
           cutoff == IF lastSentence > lastLineBreak THEN lastSentence ELSE lastLineBreak
       IN IF 10 * cutoff > 7 * maxLength
          THEN substring0(truncated, cutoff + 1) \o TruncationMarker
          ELSE truncated \o <<".", ".", ".">> \o TruncationMarker

\* ResponseTransformer.formatResponseText
formatResponseText(content, options) ==
  LET trimmed == trim(content)
      prefixed == IF options.addAnalysisPrefix /\ appearsToBeImageAnalysis(trimmed)
                  THEN AnalysisPrefix \o trimmed ELSE trimmed
      formatted == IF ~options.preserveFormatting
                   THEN trim(collapseBlanks(collapseBreaks(normalizeBreaks(prefixed))))
                   ELSE prefixed
  IN IF Truthy(options.maxResponseLength) /\ Len(formatted) > options.maxResponseLength
     THEN truncateResponse(formatted, options.maxResponseLength)
     ELSE formatted

\* ResponseTransformer.isImageAnalysis
imageIndicators ==
  {<<"i", " ", "c", "a", "n", " ", "s", "e", "e">>,
   <<"t", "h", "e", " ", "i", "m", "a", "g", "e", " ", "s", "h", "o", "w", "s">>,
   <<"i", "n", " ", "t", "h", "i", "s", " ", "p", "i", "c", "t", "u", "r", "e">>,
   <<"t", "h", "e", " ", "p", "h", "o", "t", "o", " ", "d", "e", "p", "i", "c", "t", "s">>,
   <<"v", "i", "s", "u", "a", "l", " ", "a", "n", "a", "l", "y", "s", "i", "s">>,
   <<"i", "m", "a", "g", "e", " ", "c", "o", "n", "t", "e", "n", "t">>,
   <<"w", "h", "a", "t", " ", "i", " ", "o", "b", "s", "e", "r", "v", "e">>}

isImageAnalysis(text) == \E k \in imageIndicators : includes(toLowerCase(text), k)

\* /[.!?]\s*$/.test(chunk)
endsSentence(chunk) ==
  LET t == trimEnd(chunk) IN t # <<>> /\ t[Len(t)] \in {".", "!", "?"}

\* /\n\s*$/.test(chunk)
endsLineBreak(chunk) ==
  \E i \in 1..Len(chunk) : chunk[i] = "\n" /\ \A j \in i..Len(chunk) : IsSpace(chunk[j])

\* ResponseTransformer.shouldProcessChunk
shouldProcessChunk(chunk, options) ==
  LET chunkSize == Or(options.chunkSize, 100) IN
  \/ Len(chunk) >= chunkSize
  \/ endsSentence(chunk)
  \/ endsLineBreak(chunk)

\* ResponseTransformer.processChunk
processChunk(chunk) ==
  LET processed == trim(chunk) IN
  IF processed # <<>> /\ Head(processed) \notin {".", "!", "?", "\n"}
  THEN <<" ">> \o processed
  ELSE processed

AnalyzingPrefix == <<"A", "n", "a", "l", "y", "z", "i", "n", "g", " ", "i", "m", "a", "g", "e", ".", ".", ".", "\n", "\n">>

\* ResponseTransformer.createIntermediateResponse
createIntermediateResponse(text, hasImageAnalysis, options) ==
  [model_used |-> "streaming", partial |-> "true",
   text |-> IF hasImageAnalysis /\ options.addAnalysisPrefix
            THEN AnalyzingPrefix \o text ELSE text]

\* ResponseTransformer.createFinalResponse
createFinalResponse(text, options) ==
  [model_used |-> "streaming", partial |-> "false",
   text |-> formatResponseText(text, options)]

\* ResponseTransformer.createErrorResponse: the metadata carries no
\* "partial" field; the apology text is not modelled
createErrorResponse ==
  [model_used |-> "error", partial |-> "undefined", text |-> <<>>]

\* the options a caller passes to transformStreamingResponse, merged over
\* the defaults
ChunkSizes == {Undefined, 2}

StreamingOptions ==
  [chunkSize : ChunkSizes, preserveFormatting : BOOLEAN,
   maxResponseLength : {4000}, addAnalysisPrefix : BOOLEAN]

\* the data of one delta chunk: the client yields only non-empty content
Deltas == Texts(MaxDeltaLen) \ {<<>>}

\* every variable at rest but the transformer, which has not been called
InitXform ==
  /\ cfgMaxRetries = 3
  /\ cfgRetryDelay = 1000
  /\ pc = "idle"
  /\ attempt = 0
  /\ lastError = NoError
  /\ lastOutcome = NoOutcome
  /\ posts = 0
  /\ delaysWaited = 0
  /\ lastDelay = 0
  /\ callsDone = 0
  /\ consecFailedCalls = 0
  /\ failureThreshold = 1
  /\ recoveryTimeout = 0
  /\ failures = 0
  /\ lastFailureTime = 0
  /\ state = "closed"
  /\ now = 1
  /\ call = [c \in CallIds |-> "idle"]
  /\ admittedAs = [c \in CallIds |-> "none"]
  /\ consec = 0
  /\ lastEvent = NoEvent
  /\ stream = StreamIdle
  /\ xform = XformIdle
  /\ router = RouterIdle
  /\ tool = ToolIdle
  /\ image = ImageIdle
  /\ transform = TransformIdle
  /\ limiter = LimiterIdle
  /\ catalog = CatalogIdle

\* transformStreamingResponse(stream, options) is called: the options are
\* merged over the defaults and the locals are initialised
transformStreamingResponse ==
  /\ xform.pc = "idle"
  /\ \E options \in StreamingOptions :
       xform' = [XformIdle EXCEPT !.pc = "iterating", !.opts = options]

\* the code after the for-await loop: a remaining buffer that is not blank
\* is processed and a final response is yielded
afterLoop(x) ==
  IF trim(x.chunkBuffer) # <<>>
  THEN LET accumulated == x.accumulatedText \o processChunk(x.chunkBuffer) IN
       [x EXCEPT !.accumulatedText = accumulated,
                 !.out = Append(@, createFinalResponse(accumulated, x.opts)),
                 !.pc = "returned"]
  ELSE [x EXCEPT !.pc = "returned"]

\* the source yields a delta chunk with non-empty data
xformDelta ==
  /\ xform.pc = "iterating"
  /\ \E data \in Deltas :
       /\ Len(xform.deltas) + Len(data) <= MaxText
       /\ LET chunkBuffer == xform.chunkBuffer \o data
              accumulated == xform.accumulatedText \o processChunk(chunkBuffer)
              hasImage == xform.hasImageAnalysis \/ isImageAnalysis(accumulated)
          IN xform' =
               IF shouldProcessChunk(chunkBuffer, xform.opts)
               THEN [xform EXCEPT
                       !.deltas = @ \o data,
                       !.accumulatedText = accumulated,
                       !.hasImageAnalysis = hasImage,
                       !.out = Append(@, createIntermediateResponse(accumulated, hasImage, xform.opts)),
                       !.chunkBuffer = <<>>]
               ELSE [xform EXCEPT !.deltas = @ \o data, !.chunkBuffer = chunkBuffer]

\* the source yields the done chunk: a final response is yielded when the
\* accumulated text is not blank, the loop is left, and the code after the
\* loop runs
xformDone ==
  /\ xform.pc = "iterating"
  /\ LET x == [xform EXCEPT !.ended = "done"] IN
     xform' = afterLoop(
       IF trim(x.accumulatedText) # <<>>
       THEN [x EXCEPT !.out = Append(@, createFinalResponse(x.accumulatedText, x.opts))]
       ELSE x)

\* the source yields an error chunk: an error response is yielded, the
\* loop is left, and the code after the loop runs
xformError ==
  /\ xform.pc = "iterating"
  /\ xform' = afterLoop([xform EXCEPT !.ended = "error",
                                      !.out = Append(@, createErrorResponse)])

\* the source returns without a terminal chunk
xformSourceReturns ==
  /\ xform.pc = "iterating"
  /\ xform' = afterLoop([xform EXCEPT !.ended = "return"])

\* the source throws: the catch block yields an error response
xformSourceThrows ==
  /\ xform.pc = "iterating"
  /\ xform' = [xform EXCEPT !.ended = "throw", !.pc = "returned",
                            !.out = Append(@, createErrorResponse)]

xformRest == UNCHANGED <<clientVars, breakerVars, stream, router, tool, image, transform, limiter, catalog>>

NextXform ==
  \/ transformStreamingResponse /\ xformRest
  \/ xformDelta /\ xformRest
  \/ xformDone /\ xformRest
  \/ xformError /\ xformRest
  \/ xformSourceReturns /\ xformRest
  \/ xformSourceThrows /\ xformRest

SpecXform == InitXform /\ [][NextXform]_vars

\* the generator has returned after the source sent its deltas and done
DoneSeen == xform.pc = "returned" /\ xform.ended = "done"

NonPartial == {i \in 1..Len(xform.out) : xform.out[i].partial = "false"}

\* C13: whatever finite sequence of deltas (the empty one included)
\* precedes done, the transformer yields exactly one non-partial response,
\* that response is the last one yielded, and every earlier one is partial.
C13_Original ==
  DoneSeen =>
    /\ Cardinality(NonPartial) = 1
    /\ NonPartial = {Len(xform.out)}
    /\ \A i \in 1..(Len(xform.out) - 1) : xform.out[i].partial = "true"

\* C14: the text of the final streamed response is formatResponseText of
\* the concatenation of all delta data, whatever the flush points were.
C14_Original ==
  (DoneSeen /\ NonPartial # {}) =>
    xform.out[Len(xform.out)].text = formatResponseText(xform.deltas, xform.opts)

\* ------------------------------------------------------------------------
\* ModelManager (client.ts) and ModelRouter (model-router)
\* ------------------------------------------------------------------------
MaxFallback == 1       \* configured fallback models
MaxUpdates == 1        \* setModelCapabilities calls

\* the capability fields selection and validation read
Capabilities(images, tokens) == [supportsImages |-> images, maxTokens |-> tokens]

\* ModelManager.initializeModelCapabilities: the known vision models
visionModels ==
  [m \in {"x-ai/grok-beta-vision", "google/gemini-2.0-flash-001",
          "anthropic/claude-3-5-sonnet-20241022", "openai/gpt-4o",
          "openai/gpt-4o-mini"} |-> Capabilities(TRUE, 4000)]

\* the defaults an entry starts from
defaultCapabilities == Capabilities(FALSE, 1000)

\* selectBestModel's priority order
priorityOrder ==
  <<"x-ai/grok-beta-vision", "google/gemini-2.0-flash-001",
    "anthropic/claude-3-5-sonnet-20241022", "openai/gpt-4o", "openai/gpt-4o-mini">>

\* model.includes('gpt-4o') || model.includes('claude-3-5-sonnet')
HighQualityModels ==
  {"anthropic/claude-3-5-sonnet-20241022", "openai/gpt-4o", "openai/gpt-4o-mini"}

\* the model ids configurations and requests name: two known vision
\* models and one the table does not know
Models == {"x-ai/grok-beta-vision", "openai/gpt-4o", "custom/model"}

Range(q) == {q[i] : i \in 1..Len(q)}

\* ModelConfig: a primary model and a list of fallback models
ModelConfigs ==
  [primary : Models, fallback : UNION {[1..k -> Models] : k \in 0..MaxFallback}]

\* RoutingRequest, the fields the router and the manager read plus
\* fallbackAllowed; "" is no preferred model, Undefined no token budget
RoutingRequests ==
  [hasImage : BOOLEAN, requiresHighQuality : BOOLEAN,
   maxTokens : {Undefined, 3000, 5000},
   preferredModel : {""} \cup Models, fallbackAllowed : BOOLEAN]

\* ModelManager.getAvailableModels
getAvailableModels(r) == SelectSeq(<<r.primary>> \o r.fallback, LAMBDA m : m # "")

\* ModelManager.isModelAvailable
isModelAvailable_any(r, modelId) == modelId # ""
isModelAvailable(r, modelId) == r.primary = modelId \/ modelId \in Range(r.fallback)

\* this.capabilities.get(model) is defined
known(r, model) == model \in DOMAIN r.capabilities

\* this.capabilities.get(model)?.supportsImages
supportsImages(r, model) == known(r, model) /\ r.capabilities[model].supportsImages

\* this.capabilities.get(model)?.maxTokens || 0
maxTokensOf(r, model) == IF known(r, model) THEN Or(r.capabilities[model].maxTokens, 0) ELSE 0

\* the result of a selection that threw
Thrown == [model |-> "", confidence |-> NaN, reason |-> "thrown"]

\* ModelManager.selectBestModel: "" stands for the thrown Error
selectBestModel(models) ==
  IF models = <<>> THEN ""
  ELSE LET hits == {i \in 1..Len(priorityOrder) : priorityOrder[i] \in Range(models)} IN
       IF hits # {} THEN priorityOrder[CHOOSE i \in hits : \A j \in hits : i <= j]
       ELSE models[1]

Max(a, b) == IF a > b THEN a ELSE b
Min(a, b) == IF a < b THEN a ELSE b

\* ModelManager.calculateConfidence, in tenths
calculateConfidence(r, model, request) ==
  IF ~known(r, model) THEN 5
  ELSE LET caps == r.capabilities[model]
           c1 == 5 + (IF request.hasImage /\ caps.supportsImages THEN 3 ELSE 0)
           c2 == c1 + (IF request.requiresHighQuality /\ model \in HighQualityModels THEN 2 ELSE 0)
           c3 == c2 - (IF request.hasImage /\ ~caps.supportsImages THEN 5 ELSE 0)
       IN Max(0, Min(10, c3))

\* ModelManager.selectModel
managerSelectModel(r, request) ==
  LET preferredModel == request.preferredModel
      availableModels == getAvailableModels(r)
      byImage == IF request.hasImage
                 THEN SelectSeq(availableModels, LAMBDA m : supportsImages(r, m))
                 ELSE availableModels
      byTokens == IF Truthy(request.maxTokens) /\ request.maxTokens > 2000
                  THEN SelectSeq(byImage, LAMBDA m : maxTokensOf(r, m) >= request.maxTokens)
                  ELSE byImage
      candidateModels == IF Len(byTokens) = 0 THEN availableModels ELSE byTokens
      selectedModel == selectBestModel(candidateModels)
  IN IF /\ preferredModel # ""
        /\ isModelAvailable(r, preferredModel)
        /\ known(r, preferredModel)
        /\ (~request.hasImage \/ r.capabilities[preferredModel].supportsImages)
     THEN [model |-> preferredModel, confidence |-> 10, reason |-> "preferred"]
     ELSE IF selectedModel = "" THEN Thrown
     ELSE [model |-> selectedModel,
           confidence |-> calculateConfidence(r, selectedModel, request),
           reason |-> "selected"]

\* ModelManager.validateModel(...).valid, for the requirements the router
\* passes (hasImage and maxTokens)
validateModel(r, modelId, requirements) ==
  /\ known(r, modelId)
  /\ ~(requirements.hasImage /\ ~r.capabilities[modelId].supportsImages)
  /\ ~(Truthy(requirements.maxTokens)
        /\ r.capabilities[modelId].maxTokens < requirements.maxTokens)

\* ModelRouter.selectFallbackModel
selectFallbackModel(r, request) ==
  LET fallbackCandidates ==
        SelectSeq(getAvailableModels(r),
                  LAMBDA m : m # r.primary /\ isModelAvailable(r, m))
      valid == {i \in 1..Len(fallbackCandidates) : validateModel(r, fallbackCandidates[i], request)}
  IN IF valid # {}
     THEN [model |-> fallbackCandidates[CHOOSE i \in valid : \A j \in valid : i <= j],
           confidence |-> 7, reason |-> "fallback"]
     ELSE [model |-> r.primary, confidence |-> 3, reason |-> "all failed"]

\* the Partial<ModelCapabilities> a caller passes to setModelCapabilities
CapabilityUpdates ==
  {[supportsImages |-> b] : b \in BOOLEAN}
    \cup {[maxTokens |-> t] : t \in {1000, 8000}}
    \cup [supportsImages : BOOLEAN, maxTokens : {1000, 8000}]

\* { ...existing, ...capabilities }
merge(existing, update) ==
  [f \in DOMAIN existing |-> IF f \in DOMAIN update THEN update[f] ELSE existing[f]]

\* a manager and a router constructed from a configuration; no selection
\* has been made; everything else at rest
InitRouter ==
  /\ cfgMaxRetries = 3
  /\ cfgRetryDelay = 1000
  /\ pc = "idle"
  /\ attempt = 0
  /\ lastError = NoError
  /\ lastOutcome = NoOutcome
  /\ posts = 0
  /\ delaysWaited = 0
  /\ lastDelay = 0
  /\ callsDone = 0
  /\ consecFailedCalls = 0
  /\ failureThreshold = 1
  /\ recoveryTimeout = 0
  /\ failures = 0
  /\ lastFailureTime = 0
  /\ state = "closed"
  /\ now = 1
  /\ call = [c \in CallIds |-> "idle"]
  /\ admittedAs = [c \in CallIds |-> "none"]
  /\ consec = 0
  /\ lastEvent = NoEvent
  /\ stream = StreamIdle
  /\ xform = XformIdle
  /\ tool = ToolIdle
  /\ image = ImageIdle
  /\ transform = TransformIdle
  /\ limiter = LimiterIdle
  /\ catalog = CatalogIdle
  /\ \E config \in ModelConfigs :
       router = [RouterIdle EXCEPT !.pc = "ready",
                                  !.primary = config.primary,
                                  !.fallback = config.fallback,
                                  !.capabilities = visionModels]

\* ModelManager.setModelCapabilities(modelId, capabilities)
setModelCapabilities ==
  /\ router.pc # "idle"
  /\ router.updates < MaxUpdates
  /\ \E modelId \in Models, capabilities \in CapabilityUpdates :
       LET existing == IF known(router, modelId) THEN router.capabilities[modelId]
                       ELSE defaultCapabilities
           entry == merge(existing, capabilities)
       IN router' = [router EXCEPT
            !.updates = @ + 1,
            !.capabilities = [m \in DOMAIN @ \cup {modelId} |->
                                IF m = modelId THEN entry ELSE @[m]]]

\* ModelRouter.selectModel(request) on router r: the manager selects, the
\* router validates and, on a rejection, takes selectFallbackModel's
\* answer; a throw of the manager is caught and answered with the primary
\* model. The value is the router after the call, the answer in .selection
selectModel(r, request) ==
  LET first == managerSelectModel(r, request)
      valid == first # Thrown /\ validateModel(r, first.model, request)
      selection ==
        IF first = Thrown
        THEN [model |-> r.primary, confidence |-> 1, reason |-> "selection error"]
        ELSE IF ~valid THEN selectFallbackModel(r, request)
        ELSE first
  IN [r EXCEPT
        !.pc = "selected",
        !.request = request,
        !.first = first,
        !.validation = valid,
        !.selection = selection,
        !.totalRequests = @ + 1,
        !.fallbackSelections = IF first # Thrown /\ ~valid THEN @ + 1 ELSE @,
        !.successfulSelections = IF valid THEN @ + 1 ELSE @]

\* a caller asks the router for a model.  One call per behaviour: a
\* selection reads the configuration, the capabilities and the request,
\* none of which a selection writes, so a later call on the same router
\* selects as a first call does
routerSelectModel ==
  /\ router.pc = "ready"
  /\ \E request \in RoutingRequests : router' = selectModel(router, request)

routerRest == UNCHANGED <<clientVars, breakerVars, stream, xform, tool, image, transform, limiter, catalog>>

NextRouter ==
  \/ setModelCapabilities /\ routerRest
  \/ routerSelectModel /\ routerRest

SpecRouter == InitRouter /\ [][NextRouter]_vars

\* the router has answered a request whose first selection failed validation
Rejected == router.pc = "selected" /\ router.first # Thrown /\ ~router.validation

\* C17: with fallbackAllowed = false and the first selection rejected by
\* validation, ModelRouter.selectModel never returns a model different
\* from the first selection.
C17_Original ==
  (Rejected /\ ~router.request.fallbackAllowed) =>
    router.selection.model = router.first.model

\* C18: the model ModelRouter.selectModel finally returns is never the
\* model whose validation failure triggered the fallback.
C18_Original ==
  Rejected => router.selection.model # router.first.model

\* the preferred model is set and configured
PreferredConfigured ==
  /\ router.pc = "selected"
  /\ router.request.preferredModel # ""
  /\ isModelAvailable(router, router.request.preferredModel)

\* the hard constraints: image support when the request has an image, and
\* an output-token capacity that fits the requested maxTokens
HardConstraints(r, model, request) ==
  /\ known(r, model)
  /\ request.hasImage => r.capabilities[model].supportsImages
  /\ Truthy(request.maxTokens) => r.capabilities[model].maxTokens >= request.maxTokens

\* C19: ModelManager.selectModel returns the preferred model with
\* confidence 1.0 when it is set, configured and satisfies the hard
\* constraints, and does not return it through that shortcut when it
\* violates one.
C19_Original ==
  PreferredConfigured =>
    LET preferred == router.request.preferredModel
        shortcut == router.first = [model |-> preferred, confidence |-> 10, reason |-> "preferred"]
    IN shortcut <=> HardConstraints(router, preferred, router.request)

\* C20: for a request with hasImage = true the returned model has a
\* capability entry with supportsImages = true, unless no model of the
\* candidate pool is image-capable, and then the confidence is at most 0.3.
C20_Original ==
  (router.pc = "selected" /\ router.request.hasImage) =>
    \/ supportsImages(router, router.selection.model)
    \/ /\ \A m \in Range(getAvailableModels(router)) : ~supportsImages(router, m)
       /\ router.selection.confidence <= 3

\* ------------------------------------------------------------------------
\* ResponseTransformer, single-shot responses (response-transformer.ts)
\* ------------------------------------------------------------------------
ApologyText ==
  <<"I", " ", "a", "p", "o", "l", "o", "g", "i", "z", "e", ",", " ", "b",
    "u", "t", " ", "I", " ", "e", "n", "c", "o", "u", "n", "t", "e", "r",
    "e", "d", " ", "a", "n", " ", "e", "r", "r", "o", "r", " ", "w", "h",
    "i", "l", "e", " ", "p", "r", "o", "c", "e", "s", "s", "i", "n", "g",
    " ", "t", "h", "e", " ", "i", "m", "a", "g", "e", ".", " ", "P", "l",
    "e", "a", "s", "e", " ", "t", "r", "y", " ", "a", "g", "a", "i", "n",
    ".">>

NoTextContent ==
  <<"N", "o", " ", "t", "e", "x", "t", " ", "c", "o", "n", "t", "e", "n",
    "t", " ", "a", "v", "a", "i", "l", "a", "b", "l", "e">>

NoContent ==
  <<"N", "o", " ", "c", "o", "n", "t", "e", "n", "t", " ", "a", "v", "a",
    "i", "l", "a", "b", "l", "e">>

ImageAnalysisTag ==
  <<"I", "m", "a", "g", "e", " ", "A", "n", "a", "l", "y", "s", "i", "s",
    ":">>

ImageDescriptionTag ==
  <<"I", "m", "a", "g", "e", " ", "D", "e", "s", "c", "r", "i", "p", "t",
    "i", "o", "n", ":">>

\* String.prototype.startsWith
startsWith(t, prefix) == Len(t) >= Len(prefix) /\ SubSeq(t, 1, Len(prefix)) = prefix

\* a provider response, as far as the transformer reads it: whether it has
\* a first choice with a message, what kind of content the message has
\* (for an array: the text items joined), the finish reason and the usage
ProviderResponses(texts) ==
  [shape : {"no choices", "no message", "string", "array", "other"},
   content : texts, finish_reason : {"stop", "length"},
   usage : {[present |-> FALSE, prompt_tokens |-> 0, completion_tokens |-> 0],
            [present |-> TRUE, prompt_tokens |-> 2, completion_tokens |-> 1],
            [present |-> TRUE, prompt_tokens |-> 2, completion_tokens |-> 2]}]

\* extractContent throws for this response
unusable(response) == response.shape \in {"no choices", "no message"}

\* ResponseTransformer.extractContent, for a response it does not throw on
extractContent(response) ==
  CASE response.shape = "string" -> response.content
    [] response.shape = "array" ->
         IF response.content # <<>> THEN response.content ELSE NoTextContent
    [] OTHER -> NoContent

\* ResponseTransformer.estimateConfidence, in tenths
estimateConfidence(response) ==
  LET content == extractContent(response)
      c1 == 7 + (IF Len(content) > 200 THEN 1 ELSE 0) + (IF Len(content) > 500 THEN 1 ELSE 0)
      c2 == c1 + (IF response.usage.present
                     /\ 2 * response.usage.completion_tokens
                          > Max(response.usage.prompt_tokens, 1)
                  THEN 1 ELSE 0)
      c3 == c2 + (IF response.finish_reason = "stop" THEN 1 ELSE 0)
               - (IF response.finish_reason = "length" THEN 2 ELSE 0)
  IN Max(0, Min(10, c3))

\* ResponseTransformer.transformVisionResponse: a throw of extractContent
\* is caught and answered with the error-shaped response
transformVisionResponse(response, opts) ==
  IF unusable(response)
  THEN [threw |-> FALSE, kind |-> "error", text |-> ApologyText, confidence_score |-> 0]
  ELSE [threw |-> FALSE, kind |-> "result",
        text |-> formatResponseText(extractContent(response), opts),
        confidence_score |-> IF opts.includeConfidence THEN estimateConfidence(response)
                             ELSE Undefined]

\* what a throw out of transformForTool is
Threw == [threw |-> TRUE, kind |-> "", text |-> <<>>, confidence_score |-> Undefined]

\* the options the three tool handlers pass, merged over the defaults
toolOptions(toolType, include_confidence) ==
  [preserveFormatting |-> FALSE, maxResponseLength |-> 4000,
   includeConfidence |-> IF toolType = "extract-text" THEN include_confidence ELSE TRUE,
   addAnalysisPrefix |-> toolType # "extract-text"]

\* ResponseTransformer.transformForTool: extract-text reads the content
\* again, outside transformVisionResponse's try block
transformForTool(response, toolType, opts) ==
  LET base == transformVisionResponse(response, opts) IN
  CASE toolType = "analyze" ->
         IF opts.addAnalysisPrefix /\ ~startsWith(base.text, ImageAnalysisTag)
         THEN [base EXCEPT !.text = ImageAnalysisTag \o <<"\n", "\n">> \o @]
         ELSE base
    [] toolType = "describe" ->
         IF opts.addAnalysisPrefix /\ ~startsWith(base.text, ImageDescriptionTag)
         THEN [base EXCEPT !.text = ImageDescriptionTag \o <<"\n", "\n">> \o @]
         ELSE base
    [] OTHER -> IF unusable(response) THEN Threw ELSE base

\* ------------------------------------------------------------------------
\* The tool-call handler of MCPVisionServer (mcp-server.ts)
\* ------------------------------------------------------------------------
KnownTools == {"analyze_image", "describe_image", "extract_text_from_image"}

ToolNames == KnownTools \cup {"unknown_tool"}

\* the arguments of a call, as far as the handlers branch on them:
\* whether image_url and prompt are given, the model and max_tokens asked
\* for, and whether detail_level is 'high'
ToolArgs ==
  [image_url : BOOLEAN, prompt : BOOLEAN, model : {"", "openai/gpt-4o"},
   max_tokens : {Undefined, 5000}, detail_high : BOOLEAN,
   include_confidence : BOOLEAN]

\* the stages of one call, in the order the handlers name them
StageOrder == <<"normalize", "select", "invoke", "transform">>

\* the request a handler passes to modelRouter.selectModel; no handler
\* sets fallbackAllowed
ToolRequest(name, args, config) ==
  CASE name = "analyze_image" ->
         [hasImage |-> TRUE, requiresHighQuality |-> FALSE,
          preferredModel |-> args.model,
          maxTokens |-> Or(args.max_tokens, config.defaultMaxTokens)]
    [] name = "describe_image" ->
         [hasImage |-> TRUE, requiresHighQuality |-> args.detail_high,
          preferredModel |-> "", maxTokens |-> Undefined]
    [] OTHER ->
         [hasImage |-> TRUE, requiresHighQuality |-> FALSE,
          preferredModel |-> config.primary, maxTokens |-> Undefined]

\* the text of an error response: 'Error: ' and the error's message
ErrorText == <<"E", "r", "r", "o", "r", ":", " ">>

\* a handler whose catch block throws the error again
errorResponse_rethrown(t, stage) ==
  [t EXCEPT !.pc = "rejected", !.failed = stage]

\* the handler's catch block: the error becomes an MCP error response
errorResponse(t, stage) ==
  [t EXCEPT !.pc = "responded", !.failed = stage, !.response = "error",
            !.content = <<[type |-> "text", text |-> ErrorText]>>]

\* the tool kind each handler passes to transformForTool
toolKind(name) ==
  CASE name = "analyze_image" -> "analyze"
    [] name = "describe_image" -> "describe"
    [] OTHER -> "extract-text"

\* the responses createChatCompletion resolves with: of every shape, with
\* an empty and a non-empty text
CompletionResponses ==
  {r \in ProviderResponses({<<>>, <<"s", "e", "e", ".">>}) :
     r.finish_reason = "stop" /\ ~r.usage.present}

\* a server with its router constructed from the configuration; no tool
\* call has been received; everything else at rest
InitTool ==
  /\ cfgMaxRetries = 3
  /\ cfgRetryDelay = 1000
  /\ pc = "idle"
  /\ attempt = 0
  /\ lastError = NoError
  /\ lastOutcome = NoOutcome
  /\ posts = 0
  /\ delaysWaited = 0
  /\ lastDelay = 0
  /\ callsDone = 0
  /\ consecFailedCalls = 0
  /\ failureThreshold = 1
  /\ recoveryTimeout = 0
  /\ failures = 0
  /\ lastFailureTime = 0
  /\ state = "closed"
  /\ now = 1
  /\ call = [c \in CallIds |-> "idle"]
  /\ admittedAs = [c \in CallIds |-> "none"]
  /\ consec = 0
  /\ lastEvent = NoEvent
  /\ stream = StreamIdle
  /\ xform = XformIdle
  /\ tool = ToolIdle
  /\ image = ImageIdle
  /\ transform = TransformIdle
  /\ limiter = LimiterIdle
  /\ catalog = CatalogIdle
  /\ \E config \in ModelConfigs :
       router = [RouterIdle EXCEPT !.pc = "ready",
                                  !.primary = config.primary,
                                  !.fallback = config.fallback,
                                  !.capabilities = visionModels]

\* a CallToolRequest arrives: the handler dispatches on the name, the tool
\* handler validates its inputs and calls imageProcessor.processImage
callTool ==
  /\ tool.pc = "idle"
  /\ \E name \in ToolNames, args \in ToolArgs :
       LET t == [tool EXCEPT !.name = name, !.args = args] IN
       tool' =
         IF name \notin KnownTools THEN errorResponse(t, "dispatch")
         ELSE IF ~args.image_url \/ (name = "analyze_image" /\ ~args.prompt)
         THEN errorResponse(t, "validate")
         ELSE [t EXCEPT !.pc = "normalizing", !.stages = Append(@, "normalize")]
  /\ UNCHANGED router

\* processImage rejects: the handler's catch answers with an error
processImageRejected_bug ==
  /\ tool.pc = "normalizing"
  /\ tool' = [tool EXCEPT !.pc = "selecting", !.failed = "normalize",
                          !.stages = Append(@, "select")]
  /\ router' = selectModel(router, ToolRequest(tool.name, tool.args,
                   [primary |-> router.primary, defaultMaxTokens |-> 1000]))

processImageRejected ==
  /\ tool.pc = "normalizing"
  /\ tool' = errorResponse(tool, "normalize")
  /\ UNCHANGED router

\* processImage resolves: the handler calls modelRouter.selectModel
processImageResolved ==
  /\ tool.pc = "normalizing"
  /\ tool' = [tool EXCEPT !.pc = "selecting", !.image = TRUE,
                          !.stages = Append(@, "select")]
  /\ router' = selectModel(router, ToolRequest(tool.name, tool.args,
                   [primary |-> router.primary, defaultMaxTokens |-> 1000]))

\* selectModel resolves (it never rejects): the handler builds the request
\* for the selected model and calls openRouterClient.createChatCompletion
selectModelResolved ==
  /\ tool.pc = "selecting"
  /\ tool' = [tool EXCEPT !.pc = "invoking", !.model = router.selection.model,
                          !.stages = Append(@, "invoke"),
                          !.upstreamCalls = @ + 1]
  /\ UNCHANGED router

\* createChatCompletion resolves: the handler calls transformForTool and
\* returns the content of its result; a throw of transformForTool is
\* caught by the handler's catch block
createChatCompletionResolved ==
  /\ tool.pc = "invoking"
  /\ \E response \in CompletionResponses :
       LET t == [tool EXCEPT !.completion = TRUE, !.stages = Append(@, "transform")]
           result == transformForTool(response, toolKind(tool.name),
                        toolOptions(toolKind(tool.name), tool.args.include_confidence))
       IN tool' = IF result.threw THEN errorResponse(t, "transform")
                  ELSE [t EXCEPT !.pc = "responded", !.response = "result",
                                 !.content = <<[type |-> "text", text |-> result.text]>>]
  /\ UNCHANGED router

\* createChatCompletion rejects (a non-retryable error, or the retries are
\* used up): the handler's catch answers with an error
createChatCompletionRejected ==
  /\ tool.pc = "invoking"
  /\ tool' = errorResponse(tool, "invoke")
  /\ UNCHANGED router

toolRest == UNCHANGED <<clientVars, breakerVars, stream, xform, image, transform, limiter, catalog>>

NextTool ==
  \/ callTool /\ toolRest
  \/ processImageRejected /\ toolRest
  \/ processImageResolved /\ toolRest
  \/ selectModelResolved /\ toolRest
  \/ createChatCompletionResolved /\ toolRest
  \/ createChatCompletionRejected /\ toolRest

SpecTool == InitTool /\ [][NextTool]_vars

C16_Original ==
  ( /\ tool.pc = "responded"
    /\ tool.failed = "invoke"
    /\ ("fallbackAllowed" \in DOMAIN router.request => router.request.fallbackAllowed)
    /\ \E m \in Range(getAvailableModels(router)) : m # tool.model )
  => tool.upstreamCalls >= 2

\* ------------------------------------------------------------------------
\* ImageProcessor (image-processor)
\* ------------------------------------------------------------------------
MaxBytes == 3          \* the largest configured maxSize, in bytes

\* the formats the strict data-URL pattern and the default options name
PatternFormats == {"jpeg", "jpg", "png", "webp", "gif"}

\* the formats an image reference or a download can carry
ImageFormats == {"jpeg", "png", "gif", "bmp"}

\* an image reference: how it starts, and for a data URL its format, whether
\* ";base64," and a payload of base64 characters follow, and the number of
\* bytes the payload decodes to
ImageRefs ==
  [scheme : {"data:image/"}, format : ImageFormats, payloadOk : BOOLEAN,
   bytes : 0..(MaxBytes + 1)]
  \cup [scheme : {"", "data:text/", "ftp:", "not a url", "http:", "https:"},
        format : {""}, payloadOk : {FALSE}, bytes : {0}]

\* the options of the processor, as far as processImage reads them
ImageOptions ==
  [maxSize : 1..MaxBytes, allowedFormats : {PatternFormats, {"jpeg", "png"}}]

\* ImageProcessor.validateImageInput
validateImageInput(ref) ==
  IF ref.scheme = "" THEN [valid |-> FALSE, type |-> "url"]
  ELSE IF ref.scheme = "data:image/"
  THEN [valid |-> ref.format \in PatternFormats /\ ref.payloadOk, type |-> "base64"]
  ELSE IF ref.scheme = "not a url" THEN [valid |-> FALSE, type |-> "url"]
  ELSE [valid |-> ref.scheme \in {"http:", "https:"}, type |-> "url"]

\* ImageProcessor.createError: a plain object, no instance of Error
imageError(code) == [code |-> code, instanceofError |-> FALSE]

\* the catch block of processImage: an Error that has a code is thrown
\* again, everything else becomes PROCESSING_ERROR
caught(error) ==
  IF error.instanceofError /\ error.code # ""
  THEN error
  ELSE imageError("PROCESSING_ERROR")

\* processImage rejects: code is thrown inside the try block
imageFails(img, code) ==
  [img EXCEPT !.pc = "rejected", !.thrown = code,
              !.error = caught(imageError(code)).code]

\* processImage from the buffer on: size check, format check, optimizeImage
withBuffer(img, size, format) ==
  LET i == [img EXCEPT !.size = size, !.format = format] IN
  IF size > img.maxSize THEN imageFails(i, "IMAGE_TOO_LARGE")
  ELSE IF format \notin img.allowedFormats THEN imageFails(i, "UNSUPPORTED_FORMAT")
  ELSE [i EXCEPT !.pc = "optimizing", !.optimized = @ + 1]

\* a processor constructed from its options; everything else at rest
InitImage ==
  /\ cfgMaxRetries = 3
  /\ cfgRetryDelay = 1000
  /\ pc = "idle"
  /\ attempt = 0
  /\ lastError = NoError
  /\ lastOutcome = NoOutcome
  /\ posts = 0
  /\ delaysWaited = 0
  /\ lastDelay = 0
  /\ callsDone = 0
  /\ consecFailedCalls = 0
  /\ failureThreshold = 1
  /\ recoveryTimeout = 0
  /\ failures = 0
  /\ lastFailureTime = 0
  /\ state = "closed"
  /\ now = 1
  /\ call = [c \in CallIds |-> "idle"]
  /\ admittedAs = [c \in CallIds |-> "none"]
  /\ consec = 0
  /\ lastEvent = NoEvent
  /\ stream = StreamIdle
  /\ xform = XformIdle
  /\ router = RouterIdle
  /\ tool = ToolIdle
  /\ transform = TransformIdle
  /\ limiter = LimiterIdle
  /\ catalog = CatalogIdle
  /\ \E options \in ImageOptions :
       image = [ImageIdle EXCEPT !.pc = "ready", !.maxSize = options.maxSize,
                                !.allowedFormats = options.allowedFormats]

\* processImage(imageUrl) up to its first await: the reference is
\* validated; a data URL is decoded and checked, a URL is fetched
processImage ==
  /\ image.pc = "ready"
  /\ \E ref \in ImageRefs :
       LET i == [image EXCEPT !.ref = ref]
           validation == validateImageInput(ref)
       IN image' =
            IF ~validation.valid THEN imageFails(i, "INVALID_IMAGE_INPUT")
            ELSE IF validation.type = "base64" THEN withBuffer(i, ref.bytes, ref.format)
            ELSE [i EXCEPT !.pc = "downloading", !.fetches = @ + 1]

\* axios.get resolves: the format comes from the content type, the URL or
\* the bytes ("" when none of them tells); downloadImage turns a missing
\* format into DOWNLOAD_ERROR
downloadResolved ==
  /\ image.pc = "downloading"
  /\ \E bytes \in 0..(MaxBytes + 1), format \in ImageFormats \cup {""} :
       image' = IF format = "" THEN imageFails(image, "DOWNLOAD_ERROR")
                ELSE withBuffer(image, bytes, format)

\* axios.get rejects: downloadImage classifies the failure
downloadRejected ==
  /\ image.pc = "downloading"
  /\ \E failure \in {"ENOTFOUND", "ECONNREFUSED", "404", "403", "other"} :
       image' = imageFails(image,
                  CASE failure \in {"ENOTFOUND", "ECONNREFUSED"} -> "IMAGE_URL_INACCESSIBLE"
                    [] failure = "404" -> "IMAGE_NOT_FOUND"
                    [] failure = "403" -> "IMAGE_ACCESS_FORBIDDEN"
                    [] OTHER -> "DOWNLOAD_ERROR")

\* optimizeImage resolves: a GIF and a failed optimization give the
\* original buffer, a re-encoding gives a buffer of whatever size the
\* encoder produces; processImage returns the ImageData
optimizeResolved ==
  /\ image.pc = "optimizing"
  /\ \E encoded \in 1..(MaxBytes + 1) :
       LET size == IF image.format = "gif" THEN image.size ELSE encoded IN
       image' = [image EXCEPT !.pc = "resolved",
                              !.result = [size |-> size, format |-> image.format]]

imageRest == UNCHANGED <<clientVars, breakerVars, stream, xform, router, tool, transform, limiter, catalog>>

NextImage ==
  \/ processImage /\ imageRest
  \/ downloadResolved /\ imageRest
  \/ downloadRejected /\ imageRest
  \/ optimizeResolved /\ imageRest

SpecImage == InitImage /\ [][NextImage]_vars

\* processImage has been called with an inline payload that passes the
\* strict pattern and is larger than maxSize
InlineTooLarge ==
  /\ image.pc # "ready"
  /\ image.ref.scheme = "data:image/"
  /\ validateImageInput(image.ref).valid
  /\ image.ref.bytes > image.maxSize

\* C21: an inline payload larger than maxSize makes processImage fail with
\* IMAGE_TOO_LARGE as the error the caller receives, and optimizeImage is
\* never run for it.
C21_Original ==
  InlineTooLarge =>
    /\ image.pc = "rejected"
    /\ image.error = "IMAGE_TOO_LARGE"
    /\ image.optimized = 0

\* C22: a reference that is neither a strict data URL nor an http(s) URL
\* makes processImage fail with INVALID_IMAGE_INPUT as the error the caller
\* receives, and nothing is fetched.
C22_Original ==
  (image.pc # "ready" /\ ~validateImageInput(image.ref).valid) =>
    /\ image.pc = "rejected"
    /\ image.error = "INVALID_IMAGE_INPUT"
    /\ image.fetches = 0

\* C23: every ImageData processImage returns has size <= maxSize, also
\* when re-encoding changed the number of bytes.
C23_Original ==
  image.pc = "resolved" => image.result.size <= image.maxSize

\* ------------------------------------------------------------------------
\* ResponseTransformer, single-shot: formatResponseText and transformForTool
\* ------------------------------------------------------------------------
MaxShortLimit == 3     \* the largest maxResponseLength tried on short texts
LongLimit == 180       \* the maxResponseLength tried on long texts
MaxOver == 1           \* characters by which a long text exceeds LongLimit

\* a text of n letters with a full stop at position p and a line break at
\* position q (0: none)
LongText(n, p, q) ==
  [i \in 1..n |-> IF i = p THEN "." ELSE IF i = q THEN "\n" ELSE "e"]

\* the texts and limits formatResponseText is tried on: every short text
\* with a small limit, and long texts, one sentence end anywhere and a line
\* break next to it or absent, with a limit that leaves room for a cut at
\* a boundary
FormatInputs ==
  [content : Texts(MaxText), maxResponseLength : 1..MaxShortLimit]
  \cup {[content |-> LongText(n, p, q), maxResponseLength |-> LongLimit] :
          n \in (LongLimit + 1)..(LongLimit + MaxOver),
          p \in 0..(LongLimit + MaxOver),
          q \in {0, LongLimit - 51, LongLimit - 1}}

\* the options of a single-shot call: the defaults, with the limit of the input
formatOptions(limit) ==
  [preserveFormatting |-> FALSE, maxResponseLength |-> limit, addAnalysisPrefix |-> TRUE]

\* a transformer with its default options; everything else at rest
InitTransform ==
  /\ cfgMaxRetries = 3
  /\ cfgRetryDelay = 1000
  /\ pc = "idle"
  /\ attempt = 0
  /\ lastError = NoError
  /\ lastOutcome = NoOutcome
  /\ posts = 0
  /\ delaysWaited = 0
  /\ lastDelay = 0
  /\ callsDone = 0
  /\ consecFailedCalls = 0
  /\ failureThreshold = 1
  /\ recoveryTimeout = 0
  /\ failures = 0
  /\ lastFailureTime = 0
  /\ state = "closed"
  /\ now = 1
  /\ call = [c \in CallIds |-> "idle"]
  /\ admittedAs = [c \in CallIds |-> "none"]
  /\ consec = 0
  /\ lastEvent = NoEvent
  /\ stream = StreamIdle
  /\ xform = XformIdle
  /\ router = RouterIdle
  /\ tool = ToolIdle
  /\ image = ImageIdle
  /\ transform = TransformIdle
  /\ limiter = LimiterIdle
  /\ catalog = CatalogIdle

\* formatResponseText(content, options) is called and returns
formatCall ==
  /\ transform.pc = "idle"
  /\ \E input \in FormatInputs :
       transform' = [pc |-> "formatted", input |-> input,
                     output |-> formatResponseText(input.content,
                                  formatOptions(input.maxResponseLength))]

transformRest == UNCHANGED <<clientVars, breakerVars, stream, xform, router, tool, image, limiter, catalog>>

\* the texts a provider response carries
ResponseTexts == Texts(MaxDeltaLen)

\* a tool handler hands a provider response to transformForTool
transformForToolCall ==
  /\ transform.pc = "idle"
  /\ \E response \in ProviderResponses(ResponseTexts),
        toolType \in {"analyze", "describe", "extract-text"},
        include_confidence \in BOOLEAN :
       transform' = [pc |-> "transformed",
                     input |-> [response |-> response, toolType |-> toolType],
                     output |-> transformForTool(response, toolType,
                                   toolOptions(toolType, include_confidence))]

NextTransform ==
  \/ formatCall /\ transformRest
  \/ transformForToolCall /\ transformRest

SpecTransform == InitTransform /\ [][NextTransform]_vars

\* String.prototype.endsWith
endsWith(t, suffix) ==
  Len(t) >= Len(suffix) /\ SubSeq(t, Len(t) - Len(suffix) + 1, Len(t)) = suffix

\* the text formatResponseText returns when no maximum is configured
untruncated(input) ==
  formatResponseText(input.content,
                     [formatOptions(input.maxResponseLength) EXCEPT !.maxResponseLength = Undefined])

\* what precedes the truncation marker in a returned text
body(output) == SubSeq(output, 1, Len(output) - Len(TruncationMarker))

Ellipsis == <<".", ".", ".">>

\* C24: whenever the formatted text is longer than maxResponseLength, the
\* returned text ends with the truncation marker and what precedes the
\* marker is a prefix of the untruncated text, optionally followed by
\* '...'; a text within the limit is returned whole
C24_MarkerKept ==
  transform.pc = "formatted" =>
    LET full == untruncated(transform.input)
        out == transform.output
    IN IF Len(full) > transform.input.maxResponseLength
       THEN /\ endsWith(out, TruncationMarker)
            /\ \/ startsWith(full, body(out))
               \/ /\ endsWith(body(out), Ellipsis)
                  /\ startsWith(full, SubSeq(body(out), 1, Len(body(out)) - 3))
       ELSE out = full

\* a long text was cut at a sentence end and the marker appended
C24_Witness ==
  /\ transform.pc = "formatted"
  /\ transform.input.maxResponseLength = LongLimit
  /\ Len(untruncated(transform.input)) > LongLimit
  /\ endsWith(transform.output, <<"e", ".">> \o TruncationMarker)

\* the positions before the limit at which a sentence or a line ends
boundaries(text, limit) ==
  {i \in 1..(limit - 1) : i <= Len(text) /\ text[i] \in {".", "\n"}}

\* C25: when the text exceeds the limit and has a full stop or a line break
\* before the limit, the truncated body ends exactly at the last such
\* boundary before the limit
C25_Original ==
  transform.pc = "formatted" =>
    LET full == untruncated(transform.input)
        limit == transform.input.maxResponseLength
    IN (Len(full) > limit /\ boundaries(full, limit) # {}) =>
         body(transform.output)
           = SubSeq(full, 1, CHOOSE i \in boundaries(full, limit) :
                                \A j \in boundaries(full, limit) : j <= i)

\* C26: transformForTool never throws, and an unusable provider response
\* gives the error-shaped response with confidence 0
C26_Original ==
  transform.pc = "transformed" =>
    /\ ~transform.output.threw
    /\ unusable(transform.input.response) =>
         (transform.output.kind = "error" /\ transform.output.confidence_score = 0)

\* the arguments of a tool call are malformed: the tool name is unknown or
\* a required field is missing
malformed(t) ==
  \/ t.name \notin KnownTools
  \/ ~t.args.image_url
  \/ t.name = "analyze_image" /\ ~t.args.prompt

ErrorCodes ==
  {"NETWORK_ERROR", "BAD_REQUEST", "AUTHENTICATION_ERROR", "AUTHORIZATION_ERROR",
   "MODEL_NOT_FOUND", "RATE_LIMITED", "SERVER_ERROR", "UNKNOWN_ERROR"}

\* C28: every failure streamChatCompletion surfaces is a classified error,
\* one with a code of handleError and a boolean retryable flag; no raw
\* stream-read exception reaches the caller
C28_Original ==
  stream.pc = "thrown" =>
    (stream.lastError.code \in ErrorCodes /\ stream.lastError.retryable \in BOOLEAN)

\* the confidence rule, in tenths, for model m and request q on router r
confidenceRule(r, m, q) ==
  Max(0, Min(10,
    5 + (IF q.hasImage /\ supportsImages(r, m) THEN 3 ELSE 0)
      + (IF q.requiresHighQuality /\ m \in HighQualityModels THEN 2 ELSE 0)
      - (IF q.hasImage /\ ~supportsImages(r, m) THEN 5 ELSE 0)))

\* C29: a selection ModelManager.selectModel makes outside the preferred
\* shortcut has the confidence of the rule (0.5, +0.3 for an image request
\* on an image-capable model, +0.2 for a high-quality request on a
\* high-quality model, -0.5 for an image request on a model that does not
\* meet the image requirement, clamped to [0,1]), and every selection has
\* a confidence in [0,1]
C29_Original ==
  [][ (router'.totalRequests = router.totalRequests + 1 /\ router'.first # Thrown) =>
        /\ router'.first.confidence \in 0..10
        /\ router'.first.reason = "selected" =>
             router'.first.confidence
               = confidenceRule(router', router'.first.model, router'.request) ]_vars

\* C30: under every interleaving of overlapping execute calls the failure
\* count of the breaker equals the number of wrapped operations that
\* completed with a failure since the most recent one that completed with
\* success, or since the breaker was created
C30_FailuresCounted == failures = consec

\* two overlapping operations failed one after the other while a third is
\* still running
C30_Witness ==
  /\ failures = 2
  /\ lastEvent.type = "failure"
  /\ \E c \in CallIds : call[c] = "running"

\* C31: with maxRetries configured as 0, createChatCompletion makes exactly
\* one attempt and waits no backoff delay, also when the attempt fails
\* with a retryable error
C31_Original ==
  cfgMaxRetries = 0 => (posts <= 1 /\ delaysWaited = 0)

\* ------------------------------------------------------------------------
\* RateLimiter (utils.ts:250-299)
\* ------------------------------------------------------------------------
MaxRequests == 2       \* the largest maxRequests of a limiter
MaxWindow == 2         \* the largest windowMs of a limiter
MaxLimiterTime == 4    \* the latest time of an isAllowed call
MaxLimiterCalls == 4   \* isAllowed calls made on one limiter

Clients == {"a", "b"}

\* a limiter constructed with its two parameters; no request is recorded
InitLimiter ==
  /\ cfgMaxRetries = 3
  /\ cfgRetryDelay = 1000
  /\ pc = "idle"
  /\ attempt = 0
  /\ lastError = NoError
  /\ lastOutcome = NoOutcome
  /\ posts = 0
  /\ delaysWaited = 0
  /\ lastDelay = 0
  /\ callsDone = 0
  /\ consecFailedCalls = 0
  /\ failureThreshold = 1
  /\ recoveryTimeout = 0
  /\ failures = 0
  /\ lastFailureTime = 0
  /\ state = "closed"
  /\ now = 1
  /\ call = [c \in CallIds |-> "idle"]
  /\ admittedAs = [c \in CallIds |-> "none"]
  /\ consec = 0
  /\ lastEvent = NoEvent
  /\ stream = StreamIdle
  /\ xform = XformIdle
  /\ router = RouterIdle
  /\ tool = ToolIdle
  /\ image = ImageIdle
  /\ transform = TransformIdle
  /\ catalog = CatalogIdle
  /\ \E maxRequests \in 0..MaxRequests, windowMs \in 1..MaxWindow :
       limiter = [pc |-> "ready", maxRequests |-> maxRequests, windowMs |-> windowMs,
                  now |-> 1, requests |-> [c \in Clients |-> <<>>], log |-> <<>>]

\* the requests of a client that are still inside the window at time now
validRequests(l, clientId) ==
  SelectSeq(l.requests[clientId], LAMBDA time : l.now - time < l.windowMs)

\* the quota test of isAllowed
atLimit_bug(valid, maxRequests) == Len(valid) > maxRequests
atLimit(valid, maxRequests) == Len(valid) >= maxRequests

\* RateLimiter.isAllowed(clientId); the log keeps the answer
isAllowed ==
  /\ limiter.pc = "ready"
  /\ Len(limiter.log) < MaxLimiterCalls
  /\ \E clientId \in Clients :
       LET valid == validRequests(limiter, clientId) IN
       limiter' =
         IF atLimit(valid, limiter.maxRequests)
         THEN [limiter EXCEPT !.log = Append(@, [client |-> clientId, time |-> limiter.now,
                                                  allowed |-> FALSE, remaining |-> 0])]
         ELSE [limiter EXCEPT
                 !.requests[clientId] = Append(valid, limiter.now),
                 !.log = Append(@, [client |-> clientId, time |-> limiter.now,
                                    allowed |-> TRUE,
                                    remaining |-> limiter.maxRequests - (Len(valid) + 1)])]

\* Date.now() advances
limiterTick ==
  /\ limiter.pc = "ready"
  /\ limiter.now < MaxLimiterTime
  /\ limiter' = [limiter EXCEPT !.now = @ + 1]

limiterRest == UNCHANGED <<clientVars, breakerVars, stream, xform, router, tool, image, transform, catalog>>

NextLimiter ==
  \/ isAllowed /\ limiterRest
  \/ limiterTick /\ limiterRest

SpecLimiter == InitLimiter /\ [][NextLimiter]_vars

\* the calls of the log that were answered allowed = true for client c at
\* a time in from..(to - 1)
allowedIn(log, c, from, to) ==
  {i \in 1..Len(log) : log[i].client = c /\ log[i].allowed
                          /\ from <= log[i].time /\ log[i].time < to}

\* C32: for every client the calls answered allowed = true within any
\* window of length windowMs never exceed maxRequests; the answer to a
\* call depends only on the allowed calls of the same client inside the
\* window, so a denied call consumes no quota and the calls of one client
\* never change the answer for another
C32_SlidingWindow ==
  [][ /\ \A c \in Clients, a \in 0..MaxLimiterTime :
            Cardinality(allowedIn(limiter'.log, c, a, a + limiter'.windowMs))
              <= limiter'.maxRequests
      /\ (Len(limiter'.log) = Len(limiter.log) + 1) =>
            LET answer == limiter'.log[Len(limiter'.log)]
                c == answer.client
            IN /\ answer.allowed <=>
                    Cardinality(allowedIn(limiter.log, c,
                                  limiter.now - limiter.windowMs + 1, limiter.now + 1))
                      < limiter.maxRequests
               /\ ~answer.allowed => limiter'.requests = limiter.requests
               /\ \A d \in Clients \ {c} : limiter'.requests[d] = limiter.requests[d] ]_vars

\* a client was allowed, then denied, and allowed again after the window
\* had moved on, while the other client was allowed in between
C32_Witness ==
  \E i, j, k, m \in 1..Len(limiter.log) :
    /\ i < j /\ j < k
    /\ limiter.log[i].client = "a" /\ limiter.log[i].allowed
    /\ limiter.log[j].client = "a" /\ ~limiter.log[j].allowed
    /\ limiter.log[k].client = "a" /\ limiter.log[k].allowed
    /\ limiter.log[m].client = "b" /\ limiter.log[m].allowed
    /\ limiter.maxRequests = 1

\* the data of the delta chunks of a sequence of yielded chunks
deltasOf(yielded) ==
  LET ds == SelectSeq(yielded, LAMBDA ch : ch.type = "delta")
  IN [i \in 1..Len(ds) |-> ds[i].data]

\* the content fields of the well-formed events among the lines received,
\* whether or not the transport split them
contentsOf(received) ==
  LET es == SelectSeq(received, LAMBDA l : l.kind = "delta")
  IN [i \in 1..Len(es) |-> es[i].data]

\* C33: however the transport splits the event stream into chunks, the
\* deltas streamChatCompletion yields are the content fields of the
\* well-formed events, in order (stated for the first response stream of
\* a call, while it is read and when it has ended)
C33_Original ==
  (stream.posts = 1 /\ stream.pc \in {"reading", "finished"}) =>
    deltasOf(stream.yielded) = contentsOf(stream.received)

\* the error-shaped responses among those yielded
ErrorShaped == {i \in 1..Len(xform.out) : xform.out[i].model_used = "error"}

\* C34: when the transformer has received an error chunk it has yielded
\* exactly one error-shaped response, and that response is the last one
\* yielded, whatever deltas were received or still buffered before
C34_Original ==
  (xform.pc = "returned" /\ xform.ended = "error") =>
    ErrorShaped = {Len(xform.out)}

\* ------------------------------------------------------------------------
\* OpenRouterClient.listModels and getModelInfo (client.ts:329-350)
\* ------------------------------------------------------------------------
\* a client constructed from a configuration the schema accepts; neither
\* method has been called
InitCatalog ==
  /\ cfgMaxRetries = 3
  /\ cfgRetryDelay \in RetryDelays
  /\ pc = "idle"
  /\ attempt = 0
  /\ lastError = NoError
  /\ lastOutcome = NoOutcome
  /\ posts = 0
  /\ delaysWaited = 0
  /\ lastDelay = 0
  /\ callsDone = 0
  /\ consecFailedCalls = 0
  /\ failureThreshold = 1
  /\ recoveryTimeout = 0
  /\ failures = 0
  /\ lastFailureTime = 0
  /\ state = "closed"
  /\ now = 1
  /\ call = [c \in CallIds |-> "idle"]
  /\ admittedAs = [c \in CallIds |-> "none"]
  /\ consec = 0
  /\ lastEvent = NoEvent
  /\ stream = StreamIdle
  /\ xform = XformIdle
  /\ router = RouterIdle
  /\ tool = ToolIdle
  /\ image = ImageIdle
  /\ transform = TransformIdle
  /\ limiter = LimiterIdle
  /\ catalog = CatalogIdle

\* what handleError reads of an error the response interceptor has already
\* classified: a VisionBridgeError has no response property
asCaught(classified) == [kind |-> "network", status |-> 0, hdr |-> ""]

\* listModels() or getModelInfo(modelId) is called and awaits this.client.get
catalogCall ==
  /\ catalog.pc = "idle"
  /\ \E method \in {"listModels", "getModelInfo"} :
       catalog' = [catalog EXCEPT !.pc = "awaiting", !.method = method]

\* the GET resolves: the method returns response.data
catalogGetResolved ==
  /\ catalog.pc = "awaiting"
  /\ catalog' = [catalog EXCEPT !.pc = "returned",
                                !.outcome = [kind |-> "ok", status |-> 200, hdr |-> ""]]

\* the GET rejects with the error the response interceptor classified; the
\* catch block of the method passes it to handleError again and throws
\* the result
catalogGetRejected ==
  /\ catalog.pc = "awaiting"
  /\ \E o \in Outcomes :
       /\ o.kind # "ok"
       /\ LET rejection == handleError(o, cfgRetryDelay) IN
          catalog' = [catalog EXCEPT !.pc = "thrown", !.outcome = o,
                                    !.rejection = rejection,
                                    !.thrown = handleError(asCaught(rejection), cfgRetryDelay)]

catalogRest == UNCHANGED <<clientVars, breakerVars, stream, xform, router, tool, image, transform, limiter>>

NextCatalog ==
  \/ catalogCall /\ catalogRest
  \/ catalogGetResolved /\ catalogRest
  \/ catalogGetRejected /\ catalogRest

SpecCatalog == InitCatalog /\ [][NextCatalog]_vars

\* C35: a failure of listModels or getModelInfo is surfaced with the code
\* and the retryable flag handleError assigns to the failure of the GET,
\* the ones the response interceptor gave it; classifying the classified
\* error again does not change its kind
C35_Original ==
  catalog.pc = "thrown" =>
    /\ catalog.thrown.code = handleError(catalog.outcome, cfgRetryDelay).code
    /\ catalog.thrown.retryable = handleError(catalog.outcome, cfgRetryDelay).retryable
    /\ catalog.thrown.code = catalog.rejection.code

\* C36: ModelRouter.selectModel returns a ModelSelection to every request,
\* and its model is one of the configured models, the primary or a member
\* of the fallback list, on the normal, the fallback and the error path
C36_ConfiguredModel ==
  router.pc = "selected" =>
    /\ router.selection # Thrown
    /\ router.selection.confidence \in 0..10
    /\ router.selection.model \in {router.primary} \cup Range(router.fallback)

\* the first selection failed validation and a fallback model was returned
C36_Witness ==
  /\ router.pc = "selected"
  /\ ~router.validation
  /\ router.selection.reason = "fallback"
  /\ router.selection.model \in Range(router.fallback)
  /\ router.selection.model # router.primary

\* C37: in every reachable state of the breaker, under every interleaving
\* of execute calls, the state is open or half-open only if the failure
\* count is at least failureThreshold, and the state is closed whenever
\* the failure count is 0
C37_StateMatchesCount ==
  /\ state \in {"open", "half-open"} => failures >= failureThreshold
  /\ failures = 0 => state = "closed"

\* the trial call of a half-open breaker succeeded while another call was
\* still running: the count is 0 and the breaker is closed
C37_Witness ==
  /\ lastEvent.type = "success"
  /\ lastEvent.as = "trial"
  /\ failures = 0
  /\ state = "closed"
  /\ \E c \in CallIds : call[c] = "running"

====
